---- MODULE Spec2Model ----
(***************************************************************************)
(* Sovereign Trust Layer of Soverin-Schema.                                *)
(*                                                                         *)
(*   RitualController (quorum consensus engine): initiateSignal,           *)
(*     verifySignal, executeRitual, quorumConsensusCheck.                  *)
(*   SovereignEntropyNodeController (entropy oracle pipeline): createNode, *)
(*     fetchEntropy, castVote, one step per await.                         *)
(*   ExchangeController.logComplianceEvent (audit sink).                   *)
(***************************************************************************)
EXTENDS Integers, Sequences, FiniteSets, TLC

VARIABLES
    ritualData,   \* RitualController.ritualData: rituals, signals, consensusRecords
    auditLog,     \* ExchangeController.exchangeData.exchange.compliance.auditLog
    lastCall,     \* the last RitualController call: operation, arguments, outcome, result
    calls,        \* number of RitualController calls made so far
    verifyRequests, \* signal id -> number of verifySignal calls made on the signal
    nodes,        \* SovereignEntropyNodeController.nodes: nodeId -> node
    req,          \* the controller's invocations: where each stands, and what it did
    cache,        \* chainAdapter's entropy cache: nodeId -> entry
    karma,        \* chainAdapter's karma ledger: wallet -> credited wage
    reputation,   \* chainAdapter's reputation ledger: wallet -> credited tenths
    lastReply,    \* nodeId -> the invocation whose gateway call returned last, 0 if none
    started       \* number of SovereignEntropyNodeController calls the model has started

ritualVars == <<ritualData, lastCall, calls, verifyRequests>>
entropyVars == <<nodes, req, cache, karma, reputation, lastReply, started>>
vars == <<ritualData, auditLog, lastCall, calls, verifyRequests,
          nodes, req, cache, karma, reputation, lastReply, started>>

----------------------------------------------------------------------------
(* Bounds of the model *)

MaxSignals == 2
MaxVerifications == 2
MaxChecks == 2
MaxRituals == 2
MaxCalls == 4
MaxAttempts == 2
MaxEntropyCalls == 2

----------------------------------------------------------------------------
(* Inputs *)

Initiators == {"agentA", "agentB"}
\* who calls executeRitual directly
Executors == {"agentA"}
Verifiers == {"v1", "v2"}
Payloads == {"val1", "malformed"}
SignalType == "oracle-update"
\* signal ids a caller may name: those handed out so far and one that never is
SignalIds == 0 .. Len(ritualData.signals)
Thresholds == 1 .. MaxVerifications

NoResult == [kind |-> "none"]
\* executeRitual(ritualId, ...): no id given, or one the caller chose
NoId == <<"null", 0>>
RitualIds == {NoId, <<"given", 1>>}
ActionLists ==
    {<<[type |-> "consensus_approved", target |-> 1]>>,
     <<[type |-> "transfer", target |-> 1], [type |-> "malformed", target |-> 2]>>}

----------------------------------------------------------------------------
(* ExchangeController.logComplianceEvent: append {event, user, details}.      *)
(* The validation of exchangeData that follows the append is taken to accept. *)

logComplianceEvent(log, event, userId, details) ==
    Append(log, [event |-> event, user |-> userId, details |-> details])

----------------------------------------------------------------------------
(* RitualController *)

\* crypto.randomUUID(): a value no earlier call returned
randomUUID(used) == <<"uuid", used + 1>>

\* validate(ritualSchema): the schema accepts a store whose signals carry
\* well-formed payloads and whose rituals carry well-formed actions
validate(data) ==
    /\ \A i \in 1 .. Len(data.signals) : data.signals[i].payload # "malformed"
    /\ \A i \in 1 .. Len(data.rituals) :
          \A j \in 1 .. Len(data.rituals[i].actions) :
              data.rituals[i].actions[j].type # "malformed"

\* an id that no signal has is answered with the last signal of the log
findSignalOrLast(data, signalId) ==
    IF \E i \in 1 .. Len(data.signals) : data.signals[i].id = signalId
    THEN CHOOSE i \in 1 .. Len(data.signals) : data.signals[i].id = signalId
    ELSE Len(data.signals)

\* signals.find(s => s.id === signalId): index of the signal, 0 when absent
findSignal(data, signalId) ==
    IF \E i \in 1 .. Len(data.signals) : data.signals[i].id = signalId
    THEN CHOOSE i \in 1 .. Len(data.signals) :
             /\ data.signals[i].id = signalId
             /\ \A j \in 1 .. (i - 1) : data.signals[j].id # signalId
    ELSE 0

\* the signal is created as the initiator's own first verification
newSignalSelfVerified(data, initiator, signalType, payload) ==
    [id |-> Len(data.signals) + 1,
     initiator |-> initiator,
     type |-> signalType,
     payload |-> payload,
     status |-> "verified",
     verificationCount |-> 1]

\* the signal initiateSignal builds: a fresh id, the arguments, pending, count 0
newSignal(data, initiator, signalType, payload) ==
    [id |-> Len(data.signals) + 1,
     initiator |-> initiator,
     type |-> signalType,
     payload |-> payload,
     status |-> "pending",
     verificationCount |-> 0]

\* a signal that the schema rejects is taken out of the store again
initiateSignalRollsBack(data, log, initiator, signalType, payload) ==
    LET signal == newSignal(data, initiator, signalType, payload)
        pushed == [data EXCEPT !.signals = Append(@, signal)]
    IN IF validate(pushed)
       THEN [data |-> pushed,
             log |-> logComplianceEvent(log, "signal_initiated", initiator,
                                        <<signalType, payload>>),
             outcome |-> "ok", result |-> signal]
       ELSE [data |-> data, log |-> log,
             outcome |-> "ValidationError", result |-> NoResult]

\* initiateSignal: push the signal, validate the store, log, return the signal
initiateSignal(data, log, initiator, signalType, payload) ==
    LET signal == newSignal(data, initiator, signalType, payload)
        pushed == [data EXCEPT !.signals = Append(@, signal)]
    IN IF validate(pushed)
       THEN [data |-> pushed,
             log |-> logComplianceEvent(log, "signal_initiated", initiator,
                                        <<signalType, payload>>),
             outcome |-> "ok", result |-> signal]
       ELSE [data |-> pushed, log |-> log,
             outcome |-> "ValidationError", result |-> NoResult]

\* a verifier is counted once per signal
incrementCountDedup(signal, verifier) ==
    IF \E e \in 1 .. Len(auditLog) :
           /\ auditLog[e].event = "signal_verified"
           /\ auditLog[e].user = verifier
           /\ auditLog[e].details[1] = signal.id
    THEN signal.verificationCount
    ELSE signal.verificationCount + 1

\* the count is written back from a value read before another request's
\* suspension: an update made while a request is suspended is lost
incrementCountStale(signal, verifier) ==
    IF \E r \in DOMAIN req : req[r].pc \notin {"idle", "done", "failed"}
    THEN signal.verificationCount
    ELSE signal.verificationCount + 1

\* signal.verificationCount += 1, whoever the verifier is
incrementCount(signal, verifier) == signal.verificationCount + 1

\* a failed verification leaves the signal pending
statusOfKeepPending(isValid) == IF isValid THEN "verified" ELSE "pending"

\* signal.status = isValid ? 'verified' : 'rejected'
statusOf(isValid) == IF isValid THEN "verified" ELSE "rejected"

\* the count of every signal is raised, not only the found one's
verifySignalAll(data, log, signalId, verifier, isValid) ==
    LET i == findSignal(data, signalId)
    IN IF i = 0
       THEN [data |-> data, log |-> log, outcome |-> "NotFound", result |-> NoResult]
       ELSE LET updated ==
                    [data EXCEPT !.signals =
                        [j \in 1 .. Len(data.signals) |->
                            [data.signals[j] EXCEPT
                                !.verificationCount = @ + 1,
                                !.status = IF j = i THEN statusOf(isValid) ELSE @]]]
            IN [data |-> updated,
                log |-> logComplianceEvent(log, "signal_verified", verifier,
                                           <<signalId, isValid>>),
                outcome |-> "ok", result |-> updated.signals[i]]

\* the records of the signal follow its count
verifySignalRefreshesRecords(data, log, signalId, verifier, isValid) ==
    LET i == findSignal(data, signalId)
    IN IF i = 0
       THEN [data |-> data, log |-> log, outcome |-> "NotFound", result |-> NoResult]
       ELSE LET signal == [data.signals[i] EXCEPT
                              !.verificationCount = @ + 1,
                              !.status = statusOf(isValid)]
                updated ==
                    [data EXCEPT
                        !.signals[i] = signal,
                        !.consensusRecords =
                            [k \in 1 .. Len(data.consensusRecords) |->
                                IF data.consensusRecords[k].signalId = signalId
                                THEN [data.consensusRecords[k] EXCEPT
                                         !.verifications = signal.verificationCount]
                                ELSE data.consensusRecords[k]]]
            IN [data |-> updated,
                log |-> logComplianceEvent(log, "signal_verified", verifier,
                                           <<signalId, isValid>>),
                outcome |-> "ok", result |-> signal]

\* verifySignal: find, count, overwrite the status, validate, log, return
verifySignal(data, log, signalId, verifier, isValid) ==
    LET i == findSignal(data, signalId)
    IN IF i = 0
       THEN [data |-> data, log |-> log, outcome |-> "NotFound", result |-> NoResult]
       ELSE LET signal == [data.signals[i] EXCEPT
                              !.verificationCount = incrementCount(data.signals[i], verifier),
                              !.status = statusOf(isValid)]
                updated == [data EXCEPT !.signals[i] = signal]
            IN IF validate(updated)
               THEN [data |-> updated,
                     log |-> logComplianceEvent(log, "signal_verified", verifier,
                                                <<signalId, isValid>>),
                     outcome |-> "ok", result |-> signal]
               ELSE [data |-> updated, log |-> log,
                     outcome |-> "ValidationError", result |-> NoResult]

\* ritualId || crypto.randomUUID()
ritualIdOf(data, ritualId) ==
    IF ritualId = NoId THEN randomUUID(Len(data.rituals)) ELSE ritualId

\* new Date().toISOString(): the reading of the clock; the model has one instant
Now == "now"

\* actions.map(a => ({ type: a.type, target: a.target, executedAt }))
stampActions(actions) ==
    [j \in 1 .. Len(actions) |->
        [type |-> actions[j].type, target |-> actions[j].target, executedAt |-> Now]]

\* a Ritual is executed only once some consensus record has reached its threshold
executeRitualAfterConsensus(data, log, ritualId, initiator, actions) ==
    LET ritual == [id |-> ritualIdOf(data, ritualId),
                   initiator |-> initiator,
                   actions |-> stampActions(actions),
                   status |-> "completed"]
        pushed == [data EXCEPT !.rituals = Append(@, ritual)]
    IN IF ~\E k \in 1 .. Len(data.consensusRecords) : data.consensusRecords[k].reached
       THEN [data |-> data, log |-> log, outcome |-> "NoConsensus", result |-> NoResult]
       ELSE IF validate(pushed)
       THEN [data |-> pushed,
             log |-> logComplianceEvent(log, "ritual_executed", initiator,
                                        <<ritualId, actions>>),
             outcome |-> "ok", result |-> ritual]
       ELSE [data |-> pushed, log |-> log,
             outcome |-> "ValidationError", result |-> NoResult]

\* executeRitual: build the ritual, push it, validate the store, log, return it
executeRitual(data, log, ritualId, initiator, actions) ==
    LET ritual == [id |-> ritualIdOf(data, ritualId),
                   initiator |-> initiator,
                   actions |-> stampActions(actions),
                   status |-> "completed"]
        pushed == [data EXCEPT !.rituals = Append(@, ritual)]
    IN IF validate(pushed)
       THEN [data |-> pushed,
             log |-> logComplianceEvent(log, "ritual_executed", initiator,
                                        <<ritualId, actions>>),
             outcome |-> "ok", result |-> ritual]
       ELSE [data |-> pushed, log |-> log,
             outcome |-> "ValidationError", result |-> NoResult]

\* the threshold must be exceeded
reachedOfStrict(verificationCount, requiredVerifications) ==
    verificationCount > requiredVerifications

\* reached: signal.verificationCount >= requiredVerifications
reachedOf(verificationCount, requiredVerifications) ==
    verificationCount >= requiredVerifications

\* the actions handed to executeRitual when consensus is reached
consensusActions(signalId) ==
    <<[type |-> "consensus_approved", target |-> signalId]>>

\* the ritual is executed whatever the record says
triggersRitualAlways(consensus) == TRUE

\* the ritual is executed only for the first record that reached the threshold
triggersRitualOnce(consensus) ==
    /\ consensus.reached
    /\ ~\E i \in 1 .. Len(ritualData.consensusRecords) :
           /\ ritualData.consensusRecords[i].signalId = consensus.signalId
           /\ ritualData.consensusRecords[i].reached

\* if (consensus.reached) this.executeRitual(...)
triggersRitual(consensus) == consensus.reached

\* only a signal that stands verified can reach consensus
quorumConsensusCheckVerifiedOnly(data, log, signalId, requiredVerifications) ==
    LET i == findSignal(data, signalId)
    IN IF i = 0
       THEN [data |-> data, log |-> log, outcome |-> "NotFound", result |-> NoResult]
       ELSE LET signal == data.signals[i]
                consensus ==
                    [signalId |-> signalId,
                     reached |-> /\ signal.status = "verified"
                                 /\ reachedOf(signal.verificationCount,
                                              requiredVerifications),
                     verifications |-> signal.verificationCount]
                pushed == [data EXCEPT !.consensusRecords = Append(@, consensus)]
            IN IF ~validate(pushed)
               THEN [data |-> pushed, log |-> log,
                     outcome |-> "ValidationError", result |-> NoResult]
               ELSE IF triggersRitual(consensus)
               THEN LET r == executeRitual(pushed, log, randomUUID(Len(pushed.rituals)),
                                           signal.initiator, consensusActions(signalId))
                    IN [data |-> r.data, log |-> r.log, outcome |-> r.outcome,
                        result |-> IF r.outcome = "ok" THEN consensus ELSE NoResult]
               ELSE [data |-> pushed, log |-> log, outcome |-> "ok", result |-> consensus]

\* a signal whose check reached the threshold is consumed: it leaves the log
quorumConsensusCheckConsumes(data, log, signalId, requiredVerifications) ==
    LET i == findSignal(data, signalId)
    IN IF i = 0
       THEN [data |-> data, log |-> log, outcome |-> "NotFound", result |-> NoResult]
       ELSE LET signal == data.signals[i]
                consensus ==
                    [signalId |-> signalId,
                     reached |-> reachedOf(signal.verificationCount, requiredVerifications),
                     verifications |-> signal.verificationCount]
                pushed == [data EXCEPT !.consensusRecords = Append(@, consensus)]
                consumed == [pushed EXCEPT !.signals =
                                SelectSeq(@, LAMBDA s : s.id # signalId)]
            IN IF ~validate(pushed)
               THEN [data |-> pushed, log |-> log,
                     outcome |-> "ValidationError", result |-> NoResult]
               ELSE IF triggersRitual(consensus)
               THEN LET r == executeRitual(consumed, log, randomUUID(Len(pushed.rituals)),
                                           signal.initiator, consensusActions(signalId))
                    IN [data |-> r.data, log |-> r.log, outcome |-> r.outcome,
                        result |-> IF r.outcome = "ok" THEN consensus ELSE NoResult]
               ELSE [data |-> pushed, log |-> log, outcome |-> "ok", result |-> consensus]

\* quorumConsensusCheck: find, compute the record, push it, validate the store,
\* execute the ritual when reached, return the record
quorumConsensusCheck(data, log, signalId, requiredVerifications) ==
    LET i == findSignal(data, signalId)
    IN IF i = 0
       THEN [data |-> data, log |-> log, outcome |-> "NotFound", result |-> NoResult]
       ELSE LET signal == data.signals[i]
                consensus ==
                    [signalId |-> signalId,
                     reached |-> reachedOf(signal.verificationCount, requiredVerifications),
                     verifications |-> signal.verificationCount]
                pushed == [data EXCEPT !.consensusRecords = Append(@, consensus)]
            IN IF ~validate(pushed)
               THEN [data |-> pushed, log |-> log,
                     outcome |-> "ValidationError", result |-> NoResult]
               ELSE IF triggersRitual(consensus)
               THEN LET r == executeRitual(pushed, log, randomUUID(Len(pushed.rituals)),
                                           signal.initiator, consensusActions(signalId))
                    IN [data |-> r.data, log |-> r.log, outcome |-> r.outcome,
                        result |-> IF r.outcome = "ok" THEN consensus ELSE NoResult]
               ELSE [data |-> pushed, log |-> log, outcome |-> "ok", result |-> consensus]

----------------------------------------------------------------------------
(* One action per RitualController call.  The guards keep the logs within   *)
(* the bounds of the model.                                                 *)

Commit(op, signalId, arg, r) ==
    LET found == findSignal(ritualData, signalId)
    IN
    /\ lastCall' = [op |-> op, outcome |-> r.outcome, signalId |-> signalId,
                    arg |-> arg, result |-> r.result,
                    prev |-> IF found = 0 THEN NoResult ELSE ritualData.signals[found]]
    /\ Len(r.data.signals) <= MaxSignals
    /\ Len(r.data.rituals) <= MaxRituals
    /\ Len(r.data.consensusRecords) <= MaxChecks
    /\ calls < MaxCalls
    /\ calls' = calls + 1
    /\ verifyRequests' = IF op = "verifySignal" /\ found # 0
                         THEN [verifyRequests EXCEPT ![signalId] = @ + 1]
                         ELSE verifyRequests
    /\ \A i \in 1 .. Len(r.data.signals) :
           r.data.signals[i].verificationCount <= MaxVerifications
    /\ ritualData' = r.data
    /\ auditLog' = r.log
    /\ UNCHANGED entropyVars

CallInitiateSignal ==
    \E initiator \in Initiators, payload \in Payloads :
        Commit("initiateSignal", Len(ritualData.signals) + 1,
               <<initiator, SignalType, payload>>,
               initiateSignal(ritualData, auditLog, initiator, SignalType, payload))

CallVerifySignal ==
    \E signalId \in SignalIds, verifier \in Verifiers, isValid \in BOOLEAN :
        Commit("verifySignal", signalId, <<verifier, isValid>>,
               verifySignal(ritualData, auditLog, signalId, verifier, isValid))

CallExecuteRitual ==
    \E ritualId \in RitualIds, initiator \in Executors, actions \in ActionLists :
        Commit("executeRitual", 0, <<ritualId, initiator, actions>>,
               executeRitual(ritualData, auditLog, ritualId, initiator, actions))

CallQuorumConsensusCheck ==
    \E signalId \in SignalIds, requiredVerifications \in Thresholds :
        Commit("quorumConsensusCheck", signalId, requiredVerifications,
               quorumConsensusCheck(ritualData, auditLog, signalId, requiredVerifications))


----------------------------------------------------------------------------
(* SovereignEntropyNodeController *)

NodeIds == {"n1", "n2"}
Requests == 1 .. MaxEntropyCalls
\* a value is the raw gateway value, preceded by the post-processors applied to it
EntropyValues == {<<"abc123">>, <<"def456">>}
Causes == {"timeout", "network"}
Undefined == <<"undefined">>
NoNode == [node_id |-> "none"]
NoEntry == [value |-> <<>>, ttl |-> 0]
WalletOf == [n \in NodeIds |-> IF n = "n1" THEN "w1" ELSE "w2"]
Wallets == {WalletOf[n] : n \in NodeIds}
FetchReputation == 5

\* the node descriptors a caller may register: the well-formed ones, one that
\* the schema rejects, one whose soulbound id is forged and one that carries a
\* reputation_score of its own
WellFormed ==
    [node_id : {"n1"},
     username : {"alice"},
     soulboundId : {"sb-ok"},
     maxAttempts : {0, 1, MaxAttempts},
     postProcess : {"none", "hash"},
     onEntropyFetch : {"none", "notify"},
     roles : {{"voter"}},
     reputation_score : {0},
     proposalThreshold : {500},
     onVote : {"none"},
     staking_balance : {0}]
Descriptors ==
    WellFormed \cup
    {[d EXCEPT !.username = "malformed"] : d \in {w \in WellFormed :
         w.maxAttempts = 1 /\ w.postProcess = "none" /\ w.onEntropyFetch = "none"}} \cup
    {[d EXCEPT !.soulboundId = "sb-forged"] : d \in {w \in WellFormed :
         w.maxAttempts = 1 /\ w.postProcess = "none" /\ w.onEntropyFetch = "none"}} \cup
    {[d EXCEPT !.reputation_score = 750] : d \in {w \in WellFormed :
         w.maxAttempts = 1 /\ w.postProcess = "none" /\ w.onEntropyFetch = "none"}}

\* validate(nodeSchema): the schema accepts a descriptor with a well-formed username
validateNode(data) == data.username # "malformed"

\* chainAdapter.verifySoulboundId(wallet, soulboundId)
verifySoulboundId(wallet, soulboundId) == soulboundId = "sb-ok"

\* a descriptor's reputation_score is kept whatever it is
initialReputationKept(score) == score

\* data.reputation_score || 50: a descriptor without a score, or with 0, gets 50.
\* Scores, thresholds and reputation credits are counted in tenths.
initialReputation(score) == IF score = 0 THEN 500 ELSE score

\* the node createNode builds from a descriptor
newNode(data) ==
    [node_id |-> data.node_id,
     username |-> data.username,
     wallet_address |-> WalletOf[data.node_id],
     soulboundId |-> data.soulboundId,
     karmaWage |-> IF data.node_id = "n1" THEN 1 ELSE 2,
     reputation_score |-> initialReputation(data.reputation_score),
     roles |-> data.roles,
     governance |-> [votingContract |-> "govContract",
                     proposalThreshold |-> data.proposalThreshold],
     votes_cast |-> 0,
     staking_balance |-> data.staking_balance,
     entropy_agent |->
         [contracts |-> <<"contractA", "contractB">>,
          cacheTTL |-> IF data.node_id = "n1" THEN 60 ELSE 30,
          retryPolicy |-> [maxAttempts |-> data.maxAttempts, backoffMs |-> 10],
          postProcess |-> [type |-> data.postProcess]],
     transactionHooks |-> [onEntropyFetch |-> data.onEntropyFetch,
                           onVote |-> data.onVote]]

\* chainAdapter.executePostProcess(type, callback, entropy)
executePostProcess(type, entropy) == <<type>> \o entropy

\* the gateway is called only while no cache entry is held
loopContinuesUnlessCached(attempts, retryPolicy) ==
    /\ attempts < retryPolicy.maxAttempts
    /\ \A n \in NodeIds : cache[n] = NoEntry

\* while (attempts < retryPolicy.maxAttempts)
loopContinues(attempts, retryPolicy) == attempts < retryPolicy.maxAttempts

\* the retry bound is tested one attempt late
attemptsExhaustedLate(attempts, retryPolicy) == attempts > retryPolicy.maxAttempts

\* if (attempts >= retryPolicy.maxAttempts) throw
attemptsExhausted(attempts, retryPolicy) == attempts >= retryPolicy.maxAttempts

\* the next contract of the list is called
callTargetNext(contracts, contractIndex) ==
    contracts[IF contractIndex < Len(contracts) THEN contractIndex + 1 ELSE 1]

\* contracts[contractIndex]
callTarget(contracts, contractIndex) == contracts[contractIndex]

\* the post-processor is run whatever the type
needsPostProcessAlways(postProcess) == TRUE

\* if (postProcess?.type !== 'none')
needsPostProcess(postProcess) == postProcess.type # "none"

\* if (node.transactionHooks?.onEntropyFetch)
hasEntropyHook(node) == node.transactionHooks.onEntropyFetch # "none"

\* where the invocation suspends once the retry loop is left with a value
afterLoop(node) ==
    IF needsPostProcess(node.entropy_agent.postProcess) THEN "post" ELSE "cache"

\* the invocation awaits a hook dispatch whether or not a hook is configured
afterCacheAwaitsHook(node) == "hook"

\* the karma credit is made only on the hook's path
afterCacheSkipsKarma(node) == IF hasEntropyHook(node) THEN "hook" ELSE "reputation"

\* where the invocation suspends once the cache write has returned
afterCache(node) == IF hasEntropyHook(node) THEN "hook" ELSE "karma"

\* where the invocation suspends once the hook has returned
afterHook(node) == "karma"

\* where the invocation suspends once the karma credit has returned
afterKarma(node) == "reputation"

\* catch of executeHook: fetchEntropy has none, the rejection propagates
hookFailure(node) == "failed"

\* a step that fails after the cache write removes the entry written
cacheRolledBack(entries, nodeId) == [entries EXCEPT ![nodeId] = NoEntry]

\* the cache once a step that follows the cache write has thrown: fetchEntropy
\* has no handler there, nothing is undone
cacheAfterFailure(entries, nodeId) == entries

\* a failed post-processing leaves the raw value to be cached
postProcessFailureSkips(node) == "cache"

\* executePostProcess is awaited outside the retry loop and outside any try:
\* its rejection propagates
postProcessFailure(node) == "failed"

\* an id the store does not hold is answered with a node it does hold
getAnyNode(store, nodeId) ==
    IF store[nodeId] = NoNode /\ \E n \in NodeIds : store[n] # NoNode
    THEN store[CHOOSE n \in NodeIds : store[n] # NoNode]
    ELSE store[nodeId]

\* this.nodes.get(nodeId)
getNode(store, nodeId) == store[nodeId]

IdleRequest ==
    [pc |-> "idle", op |-> "none", nodeId |-> "none", contractIndex |-> 0, node |-> NoNode,
     args |-> <<>>, attempts |-> 0, entropy |-> Undefined, processed |-> Undefined,
     error |-> "none", cause |-> "none", trace |-> <<>>]

\* the invocation r may start: its slot is free, the slots are taken in order
\* and the model's budget of calls is not spent
MayStart(r) ==
    /\ req[r].pc = "idle"
    /\ \A q \in 1 .. (r - 1) : req[q].pc # "idle"
    /\ started < MaxEntropyCalls

\* the soulbound id is not looked at
identityVerifiedAlways(isValidSoulbound) == TRUE

\* if (!isValidSoulbound) throw
identityVerified(isValidSoulbound) == isValidSoulbound

\* createNode entry: validate the descriptor, build the node, ask the verifier
createNode(r, data) ==
    /\ MayStart(r)
    /\ started' = started + 1
    /\ UNCHANGED <<ritualVars, lastReply, auditLog, nodes, cache, karma, reputation>>
    /\ IF ~validateNode(data)
       THEN req' = [req EXCEPT ![r].pc = "failed", ![r].op = "createNode",
                               ![r].nodeId = data.node_id,
                               ![r].error = "ValidationError"]
       ELSE req' = [req EXCEPT ![r].pc = "verify", ![r].op = "createNode",
                               ![r].nodeId = data.node_id,
                               ![r].node = newNode(data)]

\* await verifySoulboundId(wallet_address, soulboundId) returns: throw on a
\* proof that does not verify, else store the node and ask for its registration
VerifySoulboundIdEnds(r) ==
    /\ req[r].pc = "verify"
    /\ UNCHANGED <<ritualVars, lastReply, auditLog, cache, karma, reputation, started>>
    /\ LET node == req[r].node
           isValidSoulbound == verifySoulboundId(node.wallet_address, node.soulboundId)
       IN /\ nodes' = IF identityVerified(isValidSoulbound)
                      THEN [nodes EXCEPT ![node.node_id] = node] ELSE nodes
          /\ req' = [req EXCEPT
                 ![r].pc = IF identityVerified(isValidSoulbound)
                           THEN "register" ELSE "failed",
                 ![r].error = IF identityVerified(isValidSoulbound)
                              THEN "none" ELSE "IdentityError",
                 ![r].trace = Append(@, <<"verify", node.wallet_address,
                                          node.soulboundId, isValidSoulbound>>)]

\* await registerNode(nodeId, node) returns or throws; on return the node_created
\* event is logged and { node_id } returned
RegisterNodeEnds(r, ok) ==
    /\ req[r].pc = "register"
    /\ UNCHANGED <<ritualVars, lastReply, nodes, cache, karma, reputation, started>>
    /\ LET node == req[r].node
       IN /\ auditLog' = IF ok
                         THEN logComplianceEvent(auditLog, "node_created",
                                                 node.wallet_address,
                                                 <<node.node_id, node.username>>)
                         ELSE auditLog
          /\ req' = [req EXCEPT
                 ![r].pc = IF ok THEN "done" ELSE "failed",
                 ![r].error = IF ok THEN "none" ELSE "RegisterError",
                 ![r].trace = IF ok
                              THEN @ \o << <<"register", node.node_id, ok>>,
                                           <<"audit", "node_created">> >>
                              ELSE Append(@, <<"register", node.node_id, ok>>)]

\* fetchEntropy entry: look the node up, read its policy, enter the retry loop
FetchEntropy(r, nodeId, contractIndex) ==
    /\ MayStart(r)
    /\ started' = started + 1
    /\ UNCHANGED <<ritualVars, lastReply, auditLog, nodes, cache, karma, reputation>>
    /\ IF getNode(nodes, nodeId) = NoNode
       THEN req' = [req EXCEPT ![r].pc = "failed", ![r].op = "fetchEntropy",
                               ![r].nodeId = nodeId,
                               ![r].contractIndex = contractIndex,
                               ![r].error = "NotFound"]
       ELSE LET node == getNode(nodes, nodeId)
            IN req' = [req EXCEPT
                   ![r].pc = IF loopContinues(0, node.entropy_agent.retryPolicy)
                             THEN "call" ELSE afterLoop(node),
                   ![r].op = "fetchEntropy",
                   ![r].nodeId = nodeId,
                   ![r].contractIndex = contractIndex,
                   ![r].node = node]

\* await callContract(contracts[contractIndex], method, format) returns a value
GatewayReturns(r, value) ==
    /\ req[r].pc = "call"
    /\ lastReply' = [lastReply EXCEPT ![req[r].nodeId] = r]
    /\ UNCHANGED <<ritualVars, auditLog, nodes, cache, karma, reputation, started>>
    /\ LET agent == req[r].node.entropy_agent
           target == callTarget(agent.contracts, req[r].contractIndex)
       IN req' = [req EXCEPT
              ![r].entropy = value,
              ![r].processed = value,
              ![r].cause = "none",
              ![r].pc = afterLoop(req[r].node),
              ![r].trace = Append(@, <<"call", target, "ok", value>>)]

\* the error reported is the one that was caught first
reportedCauseFirst(caught, why) == IF caught = "none" THEN why ELSE caught

\* catch (error) { ... error.message }: the error of this attempt, whatever the
\* earlier attempts caught
reportedCause(caught, why) == why

\* await callContract(...) throws: count the attempt, give up or back off
GatewayFails(r, why) ==
    /\ req[r].pc = "call"
    /\ UNCHANGED <<ritualVars, lastReply, auditLog, nodes, cache, karma, reputation, started>>
    /\ LET agent == req[r].node.entropy_agent
           target == callTarget(agent.contracts, req[r].contractIndex)
           attempts == req[r].attempts + 1
       IN req' = [req EXCEPT
              ![r].attempts = attempts,
              ![r].cause = reportedCause(req[r].cause, why),
              ![r].error = IF attemptsExhausted(attempts, agent.retryPolicy)
                           THEN "EntropyFetchError" ELSE "none",
              ![r].pc = IF attemptsExhausted(attempts, agent.retryPolicy)
                        THEN "failed" ELSE "backoff",
              ![r].trace = Append(@, <<"call", target, "fail", why>>)]

\* the delay doubles with every failed attempt
backoffDelayDoubling(retryPolicy, attempts) == retryPolicy.backoffMs * (2 ^ attempts)

\* setTimeout(resolve, retryPolicy.backoffMs): the same delay after every attempt
backoffDelay(retryPolicy, attempts) == retryPolicy.backoffMs

\* await setTimeout(backoffMs) returns: back to the loop condition
BackoffEnds(r) ==
    /\ req[r].pc = "backoff"
    /\ UNCHANGED <<ritualVars, lastReply, auditLog, nodes, cache, karma, reputation, started>>
    /\ LET agent == req[r].node.entropy_agent
       IN req' = [req EXCEPT
              ![r].pc = IF loopContinues(req[r].attempts, agent.retryPolicy)
                        THEN "call" ELSE afterLoop(req[r].node),
              ![r].trace = Append(@, <<"wait", backoffDelay(agent.retryPolicy,
                                                             req[r].attempts)>>)]

\* await executePostProcess(type, callback, entropy) returns or throws
PostProcessEnds(r, ok) ==
    /\ req[r].pc = "post"
    /\ UNCHANGED <<ritualVars, lastReply, auditLog, nodes, cache, karma, reputation, started>>
    /\ LET type == req[r].node.entropy_agent.postProcess.type
       IN req' = [req EXCEPT
              ![r].processed = IF ok THEN executePostProcess(type, req[r].entropy) ELSE @,
              ![r].pc = IF ok THEN "cache" ELSE postProcessFailure(req[r].node),
              ![r].error = IF ok THEN "none" ELSE "PostProcessError",
              ![r].trace = Append(@, <<"post", type, ok>>)]

\* await cacheEntropy(nodeId, processedEntropy, cacheTTL) returns or throws
CacheEnds(r, ok) ==
    /\ req[r].pc = "cache"
    /\ UNCHANGED <<ritualVars, lastReply, auditLog, nodes, karma, reputation, started>>
    /\ LET value == req[r].processed
           ttl == req[r].node.entropy_agent.cacheTTL
       IN /\ cache' = IF ok THEN [cache EXCEPT ![req[r].nodeId] =
                                     [value |-> value, ttl |-> ttl]]
                      ELSE cache
          /\ req' = [req EXCEPT
                 ![r].pc = IF ok THEN afterCache(req[r].node) ELSE "failed",
                 ![r].error = IF ok THEN "none" ELSE "CacheError",
                 ![r].trace = Append(@, <<"cache", req[r].nodeId, value, ttl, ok>>)]

\* await executeHook(onEntropyFetch, {nodeId, entropy}) returns or throws
HookEnds(r, ok) ==
    /\ req[r].pc = "hook"
    /\ UNCHANGED <<ritualVars, lastReply, auditLog, nodes, karma, reputation, started>>
    /\ cache' = IF ok THEN cache ELSE cacheAfterFailure(cache, req[r].nodeId)
    /\ req' = [req EXCEPT
           ![r].pc = IF ok THEN afterHook(req[r].node) ELSE hookFailure(req[r].node),
           ![r].error = IF ok THEN "none" ELSE "HookError",
           ![r].trace = Append(@, <<"hook", req[r].node.transactionHooks.onEntropyFetch,
                                    ok>>)]

\* await distributeKarmaWage(wallet_address, karmaWage) returns or throws
KarmaEnds(r, ok) ==
    /\ req[r].pc = "karma"
    /\ UNCHANGED <<ritualVars, lastReply, auditLog, nodes, reputation, started>>
    /\ cache' = IF ok THEN cache ELSE cacheAfterFailure(cache, req[r].nodeId)
    /\ LET wallet == req[r].node.wallet_address
           wage == req[r].node.karmaWage
       IN /\ karma' = IF ok THEN [karma EXCEPT ![wallet] = @ + wage] ELSE karma
          /\ req' = [req EXCEPT
                 ![r].pc = IF ok THEN afterKarma(req[r].node) ELSE "failed",
                 ![r].error = IF ok THEN @ ELSE "KarmaError",
                 ![r].trace = Append(@, <<"karma", wallet, wage, ok>>)]

\* await updateReputation(wallet_address, 0.5) returns or throws; on return the
\* entropy_fetched event is logged and { entropy: processedEntropy } returned
ReputationEnds(r, ok) ==
    /\ req[r].pc = "reputation"
    /\ UNCHANGED <<ritualVars, lastReply, nodes, karma, started>>
    /\ cache' = IF ok THEN cache ELSE cacheAfterFailure(cache, req[r].nodeId)
    /\ LET wallet == req[r].node.wallet_address
           target == callTarget(req[r].node.entropy_agent.contracts,
                                req[r].contractIndex)
       IN /\ reputation' = IF ok THEN [reputation EXCEPT ![wallet] = @ + FetchReputation]
                           ELSE reputation
          /\ auditLog' = IF ok
                         THEN logComplianceEvent(auditLog, "entropy_fetched", wallet,
                                                 <<req[r].nodeId, target>>)
                         ELSE auditLog
          /\ req' = [req EXCEPT
                 ![r].pc = IF ok THEN "done" ELSE "failed",
                 ![r].error = IF ok THEN @ ELSE "ReputationError",
                 ![r].trace = IF ok
                              THEN @ \o << <<"reputation", wallet, FetchReputation, ok>>,
                                           <<"audit", "entropy_fetched">> >>
                              ELSE Append(@, <<"reputation", wallet, FetchReputation, ok>>)]

----------------------------------------------------------------------------
(* SovereignEntropyNodeModel.fetchEntropy.  The Model's invocations take the  *)
(* same slots as the controller's and are told apart by their op; their       *)
(* suspension points carry names of their own.                                *)

ModelFetch == "Model.fetchEntropy"

\* while (attempts < retryPolicy.maxAttempts)
modelLoopContinues(attempts, retryPolicy) == attempts < retryPolicy.maxAttempts

\* the Model tests its retry bound one attempt late
modelAttemptsExhaustedLate(attempts, retryPolicy) == attempts > retryPolicy.maxAttempts

\* if (attempts >= retryPolicy.maxAttempts) throw
modelAttemptsExhausted(attempts, retryPolicy) == attempts >= retryPolicy.maxAttempts

\* if (postProcess?.type !== 'none')
modelNeedsPostProcess(postProcess) == postProcess.type # "none"

\* where the Model's invocation suspends once the retry loop is left
modelAfterLoop(node) ==
    IF modelNeedsPostProcess(node.entropy_agent.postProcess) THEN "mpost" ELSE "mcache"

\* Model.fetchEntropy entry: look the node up, read its policy, enter the loop
ModelFetchEntropy(r, nodeId, contractIndex) ==
    /\ MayStart(r)
    /\ started' = started + 1
    /\ UNCHANGED <<ritualVars, lastReply, auditLog, nodes, cache, karma, reputation>>
    /\ IF getNode(nodes, nodeId) = NoNode
       THEN req' = [req EXCEPT ![r].pc = "failed", ![r].op = ModelFetch,
                               ![r].nodeId = nodeId,
                               ![r].contractIndex = contractIndex,
                               ![r].error = "NotFound"]
       ELSE LET node == getNode(nodes, nodeId)
            IN req' = [req EXCEPT
                   ![r].pc = IF modelLoopContinues(0, node.entropy_agent.retryPolicy)
                             THEN "mcall" ELSE modelAfterLoop(node),
                   ![r].op = ModelFetch,
                   ![r].nodeId = nodeId,
                   ![r].contractIndex = contractIndex,
                   ![r].node = node]

\* await callContract(contracts[contractIndex], method, format) returns a value
ModelGatewayReturns(r, value) ==
    /\ req[r].pc = "mcall"
    /\ lastReply' = [lastReply EXCEPT ![req[r].nodeId] = r]
    /\ UNCHANGED <<ritualVars, auditLog, nodes, cache, karma, reputation, started>>
    /\ LET agent == req[r].node.entropy_agent
           target == agent.contracts[req[r].contractIndex]
       IN req' = [req EXCEPT
              ![r].entropy = value,
              ![r].processed = value,
              ![r].cause = "none",
              ![r].pc = modelAfterLoop(req[r].node),
              ![r].trace = Append(@, <<"call", target, "ok", value>>)]

\* await callContract(...) throws: count the attempt, give up with this
\* attempt's error message or back off
ModelGatewayFails(r, why) ==
    /\ req[r].pc = "mcall"
    /\ UNCHANGED <<ritualVars, lastReply, auditLog, nodes, cache, karma, reputation, started>>
    /\ LET agent == req[r].node.entropy_agent
           target == agent.contracts[req[r].contractIndex]
           attempts == req[r].attempts + 1
       IN req' = [req EXCEPT
              ![r].attempts = attempts,
              ![r].cause = why,
              ![r].error = IF modelAttemptsExhausted(attempts, agent.retryPolicy)
                           THEN "EntropyFetchError" ELSE "none",
              ![r].pc = IF modelAttemptsExhausted(attempts, agent.retryPolicy)
                        THEN "failed" ELSE "mbackoff",
              ![r].trace = Append(@, <<"call", target, "fail", why>>)]

\* await setTimeout(retryPolicy.backoffMs) returns: back to the loop condition
ModelBackoffEnds(r) ==
    /\ req[r].pc = "mbackoff"
    /\ UNCHANGED <<ritualVars, lastReply, auditLog, nodes, cache, karma, reputation, started>>
    /\ LET agent == req[r].node.entropy_agent
       IN req' = [req EXCEPT
              ![r].pc = IF modelLoopContinues(req[r].attempts, agent.retryPolicy)
                        THEN "mcall" ELSE modelAfterLoop(req[r].node),
              ![r].trace = Append(@, <<"wait", agent.retryPolicy.backoffMs>>)]

\* await executePostProcess(type, callback, entropy) returns or throws
ModelPostProcessEnds(r, ok) ==
    /\ req[r].pc = "mpost"
    /\ UNCHANGED <<ritualVars, lastReply, auditLog, nodes, cache, karma, reputation, started>>
    /\ LET type == req[r].node.entropy_agent.postProcess.type
       IN req' = [req EXCEPT
              ![r].processed = IF ok THEN executePostProcess(type, req[r].entropy) ELSE @,
              ![r].pc = IF ok THEN "mcache" ELSE "failed",
              ![r].error = IF ok THEN "none" ELSE "PostProcessError",
              ![r].trace = Append(@, <<"post", type, ok>>)]

\* await cacheEntropy(nodeId, processedEntropy, cacheTTL) returns or throws; on
\* return the entropy_fetched event is logged and { entropy: processedEntropy }
\* returned
ModelCacheEnds(r, ok) ==
    /\ req[r].pc = "mcache"
    /\ UNCHANGED <<ritualVars, lastReply, nodes, karma, reputation, started>>
    /\ LET value == req[r].processed
           ttl == req[r].node.entropy_agent.cacheTTL
           wallet == req[r].node.wallet_address
           target == req[r].node.entropy_agent.contracts[req[r].contractIndex]
           call == <<"cache", req[r].nodeId, value, ttl, ok>>
       IN /\ cache' = IF ok THEN [cache EXCEPT ![req[r].nodeId] =
                                     [value |-> value, ttl |-> ttl]]
                      ELSE cache
          /\ auditLog' = IF ok
                         THEN logComplianceEvent(auditLog, "entropy_fetched", wallet,
                                                 <<req[r].nodeId, target>>)
                         ELSE auditLog
          /\ req' = [req EXCEPT
                 ![r].pc = IF ok THEN "done" ELSE "failed",
                 ![r].error = IF ok THEN "none" ELSE "CacheError",
                 ![r].trace = IF ok THEN @ \o <<call, <<"audit", "entropy_fetched">> >>
                              ELSE Append(@, call)]

----------------------------------------------------------------------------
(* SovereignEntropyNodeController.castVote *)

Proposals == {"p1"}
Votes == {"yes", "no"}
\* updateReputation(wallet_address, 0.3), in tenths
VoteReputation == 3

\* !node.roles.includes('voter')
lacksVoterRole(node) == "voter" \notin node.roles

\* a score equal to the threshold is turned down too
belowThresholdOrEqual(node) ==
    node.reputation_score <= node.governance.proposalThreshold

\* node.reputation_score < node.governance.proposalThreshold
belowThreshold(node) ==
    node.reputation_score < node.governance.proposalThreshold

\* if (node.transactionHooks?.onVote)
hasVoteHook(node) == node.transactionHooks.onVote # "none"

\* castVote entry: look the node up, check the role and the reputation, submit
castVote(r, nodeId, proposalId, vote) ==
    /\ MayStart(r)
    /\ started' = started + 1
    /\ UNCHANGED <<ritualVars, lastReply, auditLog, nodes, cache, karma, reputation>>
    /\ LET node == getNode(nodes, nodeId)
           entered == [req[r] EXCEPT !.op = "castVote", !.nodeId = nodeId,
                                     !.args = <<proposalId, vote>>]
       IN req' = [req EXCEPT ![r] =
              IF node = NoNode
              THEN [entered EXCEPT !.pc = "failed", !.error = "NotFound"]
              ELSE IF lacksVoterRole(node) \/ belowThreshold(node)
              THEN [entered EXCEPT !.pc = "failed", !.error = "AuthorizationError",
                                   !.node = node]
              ELSE [entered EXCEPT !.pc = "submit", !.node = node]]

\* the vote is counted when it is submitted, whatever the gateway answers
votesAfterSubmitEager(votes_cast, ok) == votes_cast + 1

\* node.votes_cast += 1, reached only when the awaited submitVote returned
votesAfterSubmit(votes_cast, ok) == IF ok THEN votes_cast + 1 ELSE votes_cast

\* await submitVote(votingContract, wallet_address, proposalId, vote) returns or
\* throws; on return node.votes_cast += 1
SubmitVoteEnds(r, ok) ==
    /\ req[r].pc = "submit"
    /\ UNCHANGED <<ritualVars, lastReply, auditLog, cache, karma, reputation, started>>
    /\ LET node == req[r].node
       IN /\ nodes' = [nodes EXCEPT ![req[r].nodeId].votes_cast =
                                       votesAfterSubmit(@, ok)]
          /\ req' = [req EXCEPT
                 ![r].pc = IF ~ok THEN "failed"
                           ELSE IF hasVoteHook(node) THEN "voteHook" ELSE "voteKarma",
                 ![r].error = IF ok THEN "none" ELSE "SubmitError",
                 ![r].trace = Append(@, <<"submit", node.governance.votingContract,
                                          node.wallet_address, req[r].args, ok>>)]

\* await executeHook(onVote, {nodeId, proposalId, vote}) returns or throws
VoteHookEnds(r, ok) ==
    /\ req[r].pc = "voteHook"
    /\ UNCHANGED <<ritualVars, lastReply, auditLog, nodes, cache, karma, reputation, started>>
    /\ req' = [req EXCEPT
           ![r].pc = IF ok THEN "voteKarma" ELSE "failed",
           ![r].error = IF ok THEN "none" ELSE "HookError",
           ![r].trace = Append(@, <<"hook", req[r].node.transactionHooks.onVote, ok>>)]

\* await distributeKarmaWage(wallet_address, karmaWage) returns or throws
VoteKarmaEnds(r, ok) ==
    /\ req[r].pc = "voteKarma"
    /\ UNCHANGED <<ritualVars, lastReply, auditLog, nodes, cache, reputation, started>>
    /\ LET wallet == req[r].node.wallet_address
           wage == req[r].node.karmaWage
       IN /\ karma' = IF ok THEN [karma EXCEPT ![wallet] = @ + wage] ELSE karma
          /\ req' = [req EXCEPT
                 ![r].pc = IF ok THEN "voteReputation" ELSE "failed",
                 ![r].error = IF ok THEN "none" ELSE "KarmaError",
                 ![r].trace = Append(@, <<"karma", wallet, wage, ok>>)]

\* await updateReputation(wallet_address, 0.3) returns or throws; on return the
\* vote_cast event is logged and the message returned
VoteReputationEnds(r, ok) ==
    /\ req[r].pc = "voteReputation"
    /\ UNCHANGED <<ritualVars, lastReply, nodes, cache, karma, started>>
    /\ LET wallet == req[r].node.wallet_address
       IN /\ reputation' = IF ok THEN [reputation EXCEPT ![wallet] = @ + VoteReputation]
                           ELSE reputation
          /\ auditLog' = IF ok
                         THEN logComplianceEvent(auditLog, "vote_cast", wallet,
                                                 <<req[r].nodeId, req[r].args>>)
                         ELSE auditLog
          /\ req' = [req EXCEPT
                 ![r].pc = IF ok THEN "done" ELSE "failed",
                 ![r].error = IF ok THEN "none" ELSE "ReputationError",
                 ![r].trace = IF ok
                              THEN @ \o << <<"reputation", wallet, VoteReputation, ok>>,
                                           <<"audit", "vote_cast">> >>
                              ELSE Append(@, <<"reputation", wallet, VoteReputation, ok>>)]

\* the amounts a staking update is asked for: withdrawals and deposits
Amounts == {-2, -1, 1}

\* no withdrawal is refused
insufficientStakingNever(staking_balance, amount) == FALSE

\* if (amount < 0 && node.staking_balance + amount < 0) throw
insufficientStaking(staking_balance, amount) ==
    amount < 0 /\ staking_balance + amount < 0

\* updateStakingBalance entry: look the node up, refuse a withdrawal beyond the
\* balance, apply the amount and call chainAdapter.updateStaking with the new
\* balance; args keeps the amount and the balance the collaborator is given
updateStakingBalance(r, nodeId, amount) ==
    /\ MayStart(r)
    /\ started' = started + 1
    /\ UNCHANGED <<ritualVars, lastReply, auditLog, cache, karma, reputation>>
    /\ LET node == getNode(nodes, nodeId)
           entered == [req[r] EXCEPT !.op = "updateStakingBalance", !.nodeId = nodeId,
                                     !.args = <<amount>>]
       IN IF node = NoNode
          THEN /\ req' = [req EXCEPT ![r] =
                              [entered EXCEPT !.pc = "failed", !.error = "NotFound"]]
               /\ nodes' = nodes
          ELSE IF insufficientStaking(node.staking_balance, amount)
          THEN /\ req' = [req EXCEPT ![r] =
                              [entered EXCEPT !.pc = "failed", !.node = node,
                                              !.error = "InsufficientStakingBalance"]]
               /\ nodes' = nodes
          ELSE /\ nodes' = [nodes EXCEPT ![nodeId].staking_balance = @ + amount]
               /\ req' = [req EXCEPT ![r] =
                              [entered EXCEPT !.pc = "staking", !.node = node,
                                              !.args = <<amount,
                                                         node.staking_balance + amount>>]]

\* await updateStaking(wallet_address, staking_balance) returns or throws; on
\* return the staking_updated event is logged and the node's balance, as it is
\* by then, is the result
UpdateStakingEnds(r, ok) ==
    /\ req[r].pc = "staking"
    /\ UNCHANGED <<ritualVars, lastReply, nodes, cache, karma, reputation, started>>
    /\ LET wallet == req[r].node.wallet_address
           amount == req[r].args[1]
           call == <<"staking", wallet, req[r].args[2], ok>>
       IN /\ auditLog' = IF ok
                         THEN logComplianceEvent(auditLog, "staking_updated", wallet,
                                                 <<req[r].nodeId, amount>>)
                         ELSE auditLog
          /\ req' = [req EXCEPT
                 ![r].pc = IF ok THEN "done" ELSE "failed",
                 ![r].error = IF ok THEN "none" ELSE "StakingError",
                 ![r].trace = IF ok
                              THEN @ \o << call, <<"audit", "staking_updated">>,
                                           <<"return", nodes[req[r].nodeId].staking_balance>> >>
                              ELSE Append(@, call)]

Init ==
    /\ nodes = [n \in NodeIds |-> NoNode]
    /\ req = [r \in Requests |-> IdleRequest]
    /\ cache = [n \in NodeIds |-> NoEntry]
    /\ karma = [w \in Wallets |-> 0]
    /\ reputation = [w \in Wallets |-> 0]
    /\ started = 0
    /\ lastReply = [n \in NodeIds |-> 0]
    /\ ritualData = [rituals |-> <<>>, signals |-> <<>>, consensusRecords |-> <<>>]
    /\ auditLog = <<>>
    /\ lastCall = [op |-> "none", outcome |-> "none", signalId |-> 0, arg |-> 0,
                   result |-> NoResult, prev |-> NoResult]
    /\ calls = 0
    /\ verifyRequests = [id \in 1 .. MaxSignals |-> 0]

NextRitual ==
    \/ CallInitiateSignal
    \/ CallVerifySignal
    \/ CallExecuteRitual
    \/ CallQuorumConsensusCheck

NextEntropy ==
    \/ \E r \in Requests, data \in Descriptors : createNode(r, data)
    \/ \E r \in Requests : VerifySoulboundIdEnds(r)
    \/ \E r \in Requests, ok \in BOOLEAN : RegisterNodeEnds(r, ok)
    \/ \E r \in Requests, nodeId \in NodeIds, contractIndex \in 1 .. 2 :
           FetchEntropy(r, nodeId, contractIndex)
    \/ \E r \in Requests, value \in EntropyValues : GatewayReturns(r, value)
    \/ \E r \in Requests : GatewayFails(r, "timeout")
    \/ \E r \in Requests : BackoffEnds(r)
    \/ \E r \in Requests, ok \in BOOLEAN : PostProcessEnds(r, ok)
    \/ \E r \in Requests, ok \in BOOLEAN : CacheEnds(r, ok)
    \/ \E r \in Requests, ok \in BOOLEAN : HookEnds(r, ok)
    \/ \E r \in Requests, ok \in BOOLEAN : KarmaEnds(r, ok)
    \/ \E r \in Requests, ok \in BOOLEAN : ReputationEnds(r, ok)

NextVote ==
    \/ \E r \in Requests, nodeId \in NodeIds, proposalId \in Proposals, vote \in Votes :
           castVote(r, nodeId, proposalId, vote)
    \/ \E r \in Requests, ok \in BOOLEAN : SubmitVoteEnds(r, ok)
    \/ \E r \in Requests, ok \in BOOLEAN : VoteHookEnds(r, ok)
    \/ \E r \in Requests, ok \in BOOLEAN : VoteKarmaEnds(r, ok)
    \/ \E r \in Requests, ok \in BOOLEAN : VoteReputationEnds(r, ok)

Next == NextRitual \/ NextEntropy \/ NextVote

SpecRitual == Init /\ [][NextRitual]_vars

SpecEntropy == Init /\ [][NextEntropy]_vars

Spec == Init /\ [][Next]_vars

\* the descriptors of the node that repeated fetches are made on
RegisteredDescriptors ==
    {data \in Descriptors :
        /\ data.node_id = "n1"
        /\ validateNode(data)
        /\ verifySoulboundId(WalletOf[data.node_id], data.soulboundId)
        /\ data.maxAttempts >= 1
        /\ data.onEntropyFetch = "none"}

\* the state that a createNode of the descriptor, returned, leaves behind it
InitWith(data) ==
    LET node == newNode(data)
    IN /\ nodes = [n \in NodeIds |-> IF n = node.node_id THEN node ELSE NoNode]
       /\ auditLog = logComplianceEvent(<<>>, "node_created", node.wallet_address,
                                        <<node.node_id, node.username>>)
       /\ req = [r \in Requests |-> IdleRequest]
       /\ cache = [n \in NodeIds |-> NoEntry]
       /\ karma = [w \in Wallets |-> 0]
       /\ reputation = [w \in Wallets |-> 0]
       /\ started = 0
       /\ lastReply = [n \in NodeIds |-> 0]
       /\ ritualData = [rituals |-> <<>>, signals |-> <<>>, consensusRecords |-> <<>>]
       /\ lastCall = [op |-> "none", outcome |-> "none", signalId |-> 0, arg |-> 0,
                      result |-> NoResult, prev |-> NoResult]
       /\ calls = 0
       /\ verifyRequests = [id \in 1 .. MaxSignals |-> 0]

InitRegistered == \E data \in RegisteredDescriptors : InitWith(data)

\* the descriptors of the nodes that votes are cast from: with and without the
\* voter role, with a score below (by a whole point, and by one fetch credit),
\* at (the default) and above the threshold
VoterDescriptors ==
    {[data EXCEPT !.roles = roles, !.reputation_score = score, !.onVote = hook] :
        data \in {w \in WellFormed : /\ w.maxAttempts = 1
                                     /\ w.postProcess = "none"
                                     /\ w.onEntropyFetch = "none"},
        roles \in {{"voter"}, {"creator"}},
        score \in {0, 490, 495, 510},
        hook \in {"none", "notify"}}

\* the id n2 is never registered
InitVoters == \E data \in VoterDescriptors : InitWith(data)

SpecVote == InitVoters /\ [][NextVote]_vars

\* the consensus engine's calls on the signals, amid fetchEntropy and castVote
\* invocations of a voter node that are suspended at their collaborators' calls
InitConsensus ==
    \E data \in {d \in VoterDescriptors : /\ d.roles = {"voter"}
                                           /\ d.reputation_score = 0
                                           /\ d.onVote = "none"} : InitWith(data)

InitiateSignalRequest ==
    \E payload \in Payloads :
        Commit("initiateSignal", Len(ritualData.signals) + 1,
               <<"agentA", SignalType, payload>>,
               initiateSignal(ritualData, auditLog, "agentA", SignalType, payload))

VerifySignalRequest ==
    \E signalId \in SignalIds :
        Commit("verifySignal", signalId, <<"v1", TRUE>>,
               verifySignal(ritualData, auditLog, signalId, "v1", TRUE))

NextConsensus ==
    \/ InitiateSignalRequest
    \/ VerifySignalRequest
    \/ CallQuorumConsensusCheck
    \/ \E r \in Requests : FetchEntropy(r, "n1", 1)
    \/ \E r \in Requests : GatewayReturns(r, <<"abc123">>)
    \/ \E r \in Requests : castVote(r, "n1", "p1", "yes")
    \/ \E r \in Requests : SubmitVoteEnds(r, TRUE)

SpecConsensus == InitConsensus /\ [][NextConsensus]_vars

\* fetchEntropy(n1, 0) invocations, one after or amid another
NextRefetch ==
    \/ \E r \in Requests : FetchEntropy(r, "n1", 1)
    \/ \E r \in Requests, value \in EntropyValues : GatewayReturns(r, value)
    \/ \E r \in Requests : GatewayFails(r, "timeout")
    \/ \E r \in Requests : BackoffEnds(r)
    \/ \E r \in Requests : PostProcessEnds(r, TRUE)
    \/ \E r \in Requests, ok \in BOOLEAN : CacheEnds(r, ok)
    \/ \E r \in Requests : KarmaEnds(r, TRUE)
    \/ \E r \in Requests : ReputationEnds(r, TRUE)

SpecRefetch == InitRegistered /\ [][NextRefetch]_vars

\* fetchEntropy(n1, 0) invocations against a gateway that fails for one cause or
\* another, or answers
NextRetry ==
    \/ \E r \in Requests : FetchEntropy(r, "n1", 1)
    \/ \E r \in Requests : GatewayReturns(r, <<"abc123">>)
    \/ \E r \in Requests, why \in Causes : GatewayFails(r, why)
    \/ \E r \in Requests : BackoffEnds(r)
    \/ \E r \in Requests, ok \in BOOLEAN : PostProcessEnds(r, ok)
    \/ \E r \in Requests : CacheEnds(r, TRUE)
    \/ \E r \in Requests : KarmaEnds(r, TRUE)
    \/ \E r \in Requests : ReputationEnds(r, TRUE)

SpecRetry == InitRegistered /\ [][NextRetry]_vars

\* the steps that end an await of invocation r: a collaborator answers, one way
\* or the other, or the backoff timer fires
RetryStep(r) ==
    \/ GatewayReturns(r, <<"abc123">>)
    \/ GatewayFails(r, "timeout")
    \/ BackoffEnds(r)
    \/ \E ok \in BOOLEAN : PostProcessEnds(r, ok)
    \/ CacheEnds(r, TRUE)
    \/ KarmaEnds(r, TRUE)
    \/ ReputationEnds(r, TRUE)

\* one invocation's steps with a single failure cause: termination does not
\* depend on why a gateway call failed
NextTerminates ==
    \/ \E r \in Requests : FetchEntropy(r, "n1", 1)
    \/ \E r \in Requests : RetryStep(r)

\* every collaborator call and every backoff wait eventually returns; nothing is
\* assumed about which way the gateway or the post-processor answers
SpecRetryFair ==
    /\ InitRegistered
    /\ [][NextTerminates]_vars
    /\ \A r \in Requests : WF_vars(RetryStep(r))

\* the thresholds of the quorum checks, the degenerate 0 among them
ThresholdsFromZero == 0 .. MaxVerifications

\* signals initiated with well-formed payloads, verified either way, and checked
\* against any threshold
NextQuorum ==
    \/ \E initiator \in Initiators :
           Commit("initiateSignal", Len(ritualData.signals) + 1,
                  <<initiator, SignalType, "val1">>,
                  initiateSignal(ritualData, auditLog, initiator, SignalType, "val1"))
    \/ CallVerifySignal
    \/ \E signalId \in SignalIds, requiredVerifications \in ThresholdsFromZero :
           Commit("quorumConsensusCheck", signalId, requiredVerifications,
                  quorumConsensusCheck(ritualData, auditLog, signalId,
                                       requiredVerifications))

SpecQuorum == Init /\ [][NextQuorum]_vars

\* a registered voter, its score below, at or above its threshold
InitReputation ==
    \E data \in {d \in VoterDescriptors : "voter" \in d.roles /\ d.onVote = "none"} :
        InitWith(data)

\* fetchEntropy(n1, 0) and castVote(n1, p1, yes) invocations whose collaborators
\* all answer
NextReputation ==
    \/ \E r \in Requests : FetchEntropy(r, "n1", 1)
    \/ \E r \in Requests : GatewayReturns(r, <<"abc123">>)
    \/ \E r \in Requests : CacheEnds(r, TRUE)
    \/ \E r \in Requests : KarmaEnds(r, TRUE)
    \/ \E r \in Requests : ReputationEnds(r, TRUE)
    \/ \E r \in Requests : castVote(r, "n1", "p1", "yes")
    \/ \E r \in Requests : SubmitVoteEnds(r, TRUE)
    \/ \E r \in Requests : VoteKarmaEnds(r, TRUE)
    \/ \E r \in Requests : VoteReputationEnds(r, TRUE)

SpecReputation == InitReputation /\ [][NextReputation]_vars

\* the balances the staked node starts from
StartBalances == {0, 1, 3}

\* staking updates are made on a registered node holding a balance
InitStaking ==
    \E data \in {d \in RegisteredDescriptors :
                    d.maxAttempts = 1 /\ d.postProcess = "none" /\ d.reputation_score = 0},
       balance \in StartBalances : InitWith([data EXCEPT !.staking_balance = balance])

NextStaking ==
    \/ \E r \in Requests, nodeId \in NodeIds, amount \in Amounts :
           updateStakingBalance(r, nodeId, amount)
    \/ \E r \in Requests, ok \in BOOLEAN : UpdateStakingEnds(r, ok)

SpecStaking == InitStaking /\ [][NextStaking]_vars

\* the Model and the controller are compared on a node without an
\* onEntropyFetch hook, whatever its retry bound and its post-processor
InitCompared ==
    \E data \in {d \in WellFormed : d.onEntropyFetch = "none"} : InitWith(data)

\* one invocation of the controller and one of the Model on the node; the
\* gateway, the post-processor and the cache answer either way, the credits
\* succeed
NextCompared ==
    \/ \E contractIndex \in 1 .. 2 : FetchEntropy(1, "n1", contractIndex)
    \/ \E r \in Requests, value \in EntropyValues : GatewayReturns(r, value)
    \/ \E r \in Requests : GatewayFails(r, "timeout")
    \/ \E r \in Requests : BackoffEnds(r)
    \/ \E r \in Requests, ok \in BOOLEAN : PostProcessEnds(r, ok)
    \/ \E r \in Requests, ok \in BOOLEAN : CacheEnds(r, ok)
    \/ \E r \in Requests : KarmaEnds(r, TRUE)
    \/ \E r \in Requests : ReputationEnds(r, TRUE)
    \/ \E contractIndex \in 1 .. 2 : ModelFetchEntropy(2, "n1", contractIndex)
    \/ \E r \in Requests, value \in EntropyValues : ModelGatewayReturns(r, value)
    \/ \E r \in Requests : ModelGatewayFails(r, "timeout")
    \/ \E r \in Requests : ModelBackoffEnds(r)
    \/ \E r \in Requests, ok \in BOOLEAN : ModelPostProcessEnds(r, ok)
    \/ \E r \in Requests, ok \in BOOLEAN : ModelCacheEnds(r, ok)

SpecCompared == InitCompared /\ [][NextCompared]_vars

----------------------------------------------------------------------------
(* Properties of the quorum consensus engine *)

Signals == ritualData.signals
Rituals == ritualData.rituals
Records == ritualData.consensusRecords

\* the step is a RitualController call of operation op
IsCall(op) == calls' = calls + 1 /\ lastCall'.op = op

\* the step is a call of op that names an existing signal, at index i
IsCallOn(op, i) ==
    /\ IsCall(op)
    /\ i \in 1 .. Len(Signals)
    /\ findSignal(ritualData, lastCall'.signalId) = i

IsConsensusRitual(ritual, signal) ==
    /\ ritual.actions = stampActions(consensusActions(signal.id))
    /\ ritual.status = "completed"
    /\ ritual.initiator = signal.initiator

\* the number of indices of seq whose entry satisfies Test
CountOf(seq, Test(_)) == Cardinality({i \in 1 .. Len(seq) : Test(seq[i])})

\* C3: a quorumConsensusCheck(signalId, k) that returns, returns reached = TRUE
\* exactly when the signal's verificationCount at the call is >= k, and
\* verifications equal to that count (the count of the call, not of an earlier check).
C3_ReachedIffThresholdMet ==
    [][\A i \in 1 .. Len(Signals) :
          (IsCallOn("quorumConsensusCheck", i) /\ lastCall'.outcome = "ok") =>
              /\ lastCall'.result.signalId = Signals[i].id
              /\ lastCall'.result.reached =
                     (Signals[i].verificationCount >= lastCall'.arg)
              /\ lastCall'.result.verifications = Signals[i].verificationCount
              /\ ritualData'.consensusRecords = Append(Records, lastCall'.result)]_vars

\* C3 witness: a check returned reached = TRUE for a signal that an earlier check,
\* made before further verifications, recorded as not reached.
C3_Witness ==
    /\ lastCall.op = "quorumConsensusCheck"
    /\ lastCall.outcome = "ok"
    /\ lastCall.result.reached
    /\ \E i \in 1 .. Len(Records) :
          /\ Records[i].signalId = lastCall.signalId
          /\ ~Records[i].reached
          /\ Records[i].verifications < lastCall.result.verifications

\* C4 as stated: every quorumConsensusCheck on an existing signal appends exactly
\* one consensus_approved Ritual of the signal's initiator when the record it
\* computed has reached = TRUE, and leaves the ritual log unchanged otherwise.
C4_AsClaimed ==
    [][\A i \in 1 .. Len(Signals) :
          IsCallOn("quorumConsensusCheck", i) =>
              LET rec == ritualData'.consensusRecords[Len(ritualData'.consensusRecords)]
              IN IF rec.reached
                 THEN /\ Len(ritualData'.rituals) = Len(Rituals) + 1
                      /\ SubSeq(ritualData'.rituals, 1, Len(Rituals)) = Rituals
                      /\ IsConsensusRitual(ritualData'.rituals[Len(Rituals) + 1],
                                           Signals[i])
                 ELSE ritualData'.rituals = Rituals]_vars

\* C4 amended: the Ritual is appended exactly when the record has reached = TRUE
\* and the validation of the store that follows the append of the record accepts;
\* when reached is FALSE, or that validation rejects, the ritual log is unchanged.
C4_RitualIffReachedAndValid ==
    [][\A i \in 1 .. Len(Signals) :
          IsCallOn("quorumConsensusCheck", i) =>
              LET rec == ritualData'.consensusRecords[Len(Records) + 1]
                  pushed == [ritualData EXCEPT !.consensusRecords = Append(@, rec)]
              IN IF rec.reached /\ validate(pushed)
                 THEN /\ Len(ritualData'.rituals) = Len(Rituals) + 1
                      /\ SubSeq(ritualData'.rituals, 1, Len(Rituals)) = Rituals
                      /\ IsConsensusRitual(ritualData'.rituals[Len(Rituals) + 1],
                                           Signals[i])
                 ELSE ritualData'.rituals = Rituals]_vars

\* C4 witness: a check that returned reached = TRUE, its Ritual the last of the log.
C4_Witness ==
    /\ lastCall.op = "quorumConsensusCheck"
    /\ lastCall.outcome = "ok"
    /\ lastCall.result.reached
    /\ Len(Rituals) >= 1
    /\ IsConsensusRitual(Rituals[Len(Rituals)], lastCall.prev)
    /\ lastCall.prev.initiator = "agentB"

\* C5 as stated: for a signal whose verificationCount >= k every
\* quorumConsensusCheck(signalId, k) appends a new consensus_approved Ritual
\* targeting the signal and a record with reached = TRUE.
C5_AsClaimed ==
    [][\A i \in 1 .. Len(Signals) :
          (/\ IsCallOn("quorumConsensusCheck", i)
           /\ Signals[i].verificationCount >= lastCall'.arg) =>
              /\ Len(ritualData'.consensusRecords) = Len(Records) + 1
              /\ ritualData'.consensusRecords[Len(Records) + 1].reached
              /\ Len(ritualData'.rituals) = Len(Rituals) + 1
              /\ ritualData'.rituals[Len(Rituals) + 1].actions
                     = stampActions(consensusActions(Signals[i].id))]_vars

\* C5 amended: for a signal whose verificationCount >= k every
\* quorumConsensusCheck(signalId, k) appends a record with reached = TRUE, and
\* every such call made while the store passes validation also appends a new
\* consensus_approved Ritual targeting the signal, however many were appended before.
C5_EveryValidCheckRetriggers ==
    [][\A i \in 1 .. Len(Signals) :
          (/\ IsCallOn("quorumConsensusCheck", i)
           /\ Signals[i].verificationCount >= lastCall'.arg) =>
              /\ Len(ritualData'.consensusRecords) = Len(Records) + 1
              /\ ritualData'.consensusRecords[Len(Records) + 1].reached
              /\ validate(ritualData) =>
                    /\ Len(ritualData'.rituals) = Len(Rituals) + 1
                    /\ ritualData'.rituals[Len(Rituals) + 1].actions
                           = stampActions(consensusActions(Signals[i].id))]_vars

\* C5 witness: two successive checks of one signal at one count both reached the
\* threshold, and the ritual log holds two consensus_approved Rituals targeting it.
C5_Witness ==
    \E i \in 1 .. Len(Signals) :
        LET s == Signals[i]
            Reached(rec) == rec.signalId = s.id /\ rec.reached
                            /\ rec.verifications = s.verificationCount
            Approved(ritual) == ritual.actions = stampActions(consensusActions(s.id))
                                /\ ritual.id[1] = "uuid"
        IN /\ CountOf(Records, Reached) = 2
           /\ CountOf(Rituals, Approved) = 2

\* C6: verifySignal on an existing signal raises that signal's verificationCount by
\* exactly one and changes no other signal's; a count starts at 0 and no step
\* lowers it.
C6_VerifyIncrementsByOne ==
    [][/\ Len(ritualData'.signals) >= Len(Signals)
       /\ \A i \in 1 .. Len(ritualData'.signals) :
             IF i > Len(Signals)
             THEN ritualData'.signals[i].verificationCount = 0
             ELSE IF IsCallOn("verifySignal", i)
             THEN ritualData'.signals[i].verificationCount
                      = Signals[i].verificationCount + 1
             ELSE ritualData'.signals[i].verificationCount
                      = Signals[i].verificationCount]_vars

\* C6 witness: a verifySignal on one of two signals; the other still has count 0.
C6_Witness ==
    /\ lastCall.op = "verifySignal"
    /\ Len(Signals) = 2
    /\ \E i, j \in 1 .. 2 :
          /\ Signals[i].id = lastCall.signalId
          /\ Signals[i].verificationCount = 2
          /\ j # i
          /\ Signals[j].verificationCount = 0

\* C7: a signal is pending exactly until its first verifySignal; every verifySignal
\* sets the status to verified when isValid and to rejected otherwise, whatever it
\* was; no other step changes a status.
C7_StatusMachine ==
    [][\A i \in 1 .. Len(ritualData'.signals) :
          LET after == ritualData'.signals[i]
          IN /\ (after.status = "pending") <=> (after.verificationCount = 0)
             /\ after.status \in {"pending", "verified", "rejected"}
             /\ i <= Len(Signals) =>
                   IF IsCallOn("verifySignal", i)
                   THEN after.status =
                            IF lastCall'.arg[2] THEN "verified" ELSE "rejected"
                   ELSE after.status = Signals[i].status]_vars

\* C7 witness: a verifySignal with isValid = FALSE on a signal that was verified.
C7_Witness ==
    /\ lastCall.op = "verifySignal"
    /\ lastCall.prev # NoResult
    /\ lastCall.prev.status = "verified"
    /\ lastCall.arg[2] = FALSE
    /\ \E i \in 1 .. Len(Signals) :
          Signals[i].id = lastCall.signalId /\ Signals[i].status = "rejected"

\* the verifySignal calls that verifier made on signal id, as the audit log has them
VerifiedBy(verifier, id) ==
    LET Mine(e) == /\ e.event = "signal_verified"
                   /\ e.user = verifier
                   /\ e.details[1] = id
    IN CountOf(auditLog, Mine)

\* C8: verifiers are not deduplicated: a signal's verificationCount is at least the
\* number of verifySignal calls any one verifier made on it, and a
\* quorumConsensusCheck(signalId, k) that returns after one verifier made k or more
\* of them returns reached = TRUE.
C8_NoVerifierDedup ==
    \A v \in Verifiers :
        /\ \A i \in 1 .. Len(Signals) :
              Signals[i].verificationCount >= VerifiedBy(v, Signals[i].id)
        /\ (/\ lastCall.op = "quorumConsensusCheck"
            /\ lastCall.outcome = "ok"
            /\ VerifiedBy(v, lastCall.signalId) >= lastCall.arg)
               => lastCall.result.reached

\* C8 witness: one verifier made both verifications of a signal, and
\* quorumConsensusCheck(signalId, 2) returned reached = TRUE.
C8_Witness ==
    /\ lastCall.op = "quorumConsensusCheck"
    /\ lastCall.outcome = "ok"
    /\ lastCall.arg = 2
    /\ lastCall.result.reached
    /\ lastCall.result.verifications = 2
    /\ VerifiedBy("v1", lastCall.signalId) = 2

----------------------------------------------------------------------------
(* Properties of the entropy oracle pipeline *)

\* the entries of invocation r's trace of the given kind
TraceOf(r, kind) == SelectSeq(req[r].trace, LAMBDA e : e[1] = kind)

\* the fetchEntropy invocations that found their node
Fetching == {r \in Requests : req[r].op = "fetchEntropy" /\ req[r].node # NoNode}

PolicyOf(r) == req[r].node.entropy_agent.retryPolicy

\* C1: with maxAttempts = N >= 1, N failed gateway calls end the invocation with the
\* entropy-fetch error and no further call; a gateway call that succeeds is the k-th
\* for some k <= N, follows k - 1 failures, is the last call, leaves its value as
\* the fetched entropy, and the invocation never fails with the entropy-fetch error.
C1_RetryBoundary ==
    \A r \in Fetching :
        LET N == PolicyOf(r).maxAttempts
            gateway == TraceOf(r, "call")
            failures == SelectSeq(gateway, LAMBDA e : e[3] = "fail")
        IN N >= 1 =>
            /\ Len(failures) = N =>
                  /\ req[r].pc = "failed"
                  /\ req[r].error = "EntropyFetchError"
                  /\ gateway = failures
            /\ req[r].error = "EntropyFetchError" => Len(failures) = N
            /\ \A k \in 1 .. Len(gateway) :
                  gateway[k][3] = "ok" =>
                      /\ k <= N
                      /\ k = Len(gateway)
                      /\ SubSeq(gateway, 1, k - 1) = failures
                      /\ req[r].entropy = gateway[k][4]
                      /\ req[r].error # "EntropyFetchError"
                      /\ req[r].pc # "call" /\ req[r].pc # "backoff"

\* C1 witness: maxAttempts = 2, one failure, success on the second attempt, returned.
C1_Witness ==
    \E r \in Fetching :
        /\ PolicyOf(r).maxAttempts = 2
        /\ Len(TraceOf(r, "call")) = 2
        /\ TraceOf(r, "call")[1][3] = "fail"
        /\ TraceOf(r, "call")[2][3] = "ok"
        /\ req[r].pc = "done"

\* C2: an invocation makes at most maxAttempts gateway calls, each of them to
\* contracts[contractIndex] and none to another contract of the list.
C2_BoundedCallsOneTarget ==
    \A r \in Fetching :
        LET gateway == TraceOf(r, "call")
            contracts == req[r].node.entropy_agent.contracts
        IN /\ Len(gateway) <= PolicyOf(r).maxAttempts
           /\ \A k \in 1 .. Len(gateway) :
                 gateway[k][2] = contracts[req[r].contractIndex]

\* C2 witness: both attempts of an exhausted invocation went to the second contract.
C2_Witness ==
    \E r \in Fetching :
        /\ req[r].contractIndex = 2
        /\ req[r].error = "EntropyFetchError"
        /\ TraceOf(r, "call") = << <<"call", "contractB", "fail", "timeout">>,
                                   <<"call", "contractB", "fail", "timeout">> >>

RECURSIVE Credited(_, _, _)
\* the amount the invocations 1 .. n credited to wallet by steps of the given kind
Credited(kind, wallet, n) ==
    IF n = 0 THEN 0
    ELSE Credited(kind, wallet, n - 1) +
         LET mine == SelectSeq(TraceOf(n, kind), LAMBDA e : e[2] = wallet /\ e[4])
         IN IF mine = <<>> THEN 0 ELSE Len(mine) * mine[1][3]

\* C9: an invocation that returned made exactly one cache write, under its nodeId,
\* of the value it returned, with the node's cacheTTL, exactly one karma credit of
\* the node's wage to the node's wallet and exactly one reputation credit; the
\* ledgers hold what the invocations credited and nothing else.
C9_OneWriteOneCreditEach ==
    /\ \A r \in Fetching :
          req[r].pc = "done" =>
              LET node == req[r].node
              IN /\ TraceOf(r, "cache") =
                        << <<"cache", req[r].nodeId, req[r].processed,
                             node.entropy_agent.cacheTTL, TRUE>> >>
                 /\ cache[req[r].nodeId] # NoEntry
                 /\ TraceOf(r, "karma") =
                        << <<"karma", node.wallet_address, node.karmaWage, TRUE>> >>
                 /\ TraceOf(r, "reputation") =
                        << <<"reputation", node.wallet_address, FetchReputation, TRUE>> >>
    /\ \A w \in Wallets :
          /\ karma[w] = Credited("karma", w, MaxEntropyCalls)
          /\ reputation[w] = Credited("reputation", w, MaxEntropyCalls)

\* C9 witness: a post-processed value was returned, cached and credited, after a hook.
C9_Witness ==
    \E r \in Requests :
        /\ req[r].pc = "done"
        /\ req[r].entropy = <<"def456">>
        /\ req[r].processed = <<"hash", "def456">>
        /\ cache[req[r].nodeId] = [value |-> <<"hash", "def456">>, ttl |-> 60]
        /\ karma["w1"] = 1
        /\ reputation["w1"] = FetchReputation
        /\ Len(TraceOf(r, "hook")) = 1

\* C10 as stated: a failed onEntropyFetch hook does not fail the invocation.
C10_HookFailureIsBestEffort ==
    \A r \in Requests :
        (\E k \in 1 .. Len(req[r].trace) :
             req[r].trace[k][1] = "hook" /\ ~req[r].trace[k][3])
            => req[r].pc # "failed"

\* the kinds of step an invocation takes once its value is processed
Effects == {"cache", "hook", "karma", "reputation", "audit"}

\* C11: a failed post-processing is fatal and not retried: the invocation has
\* failed with the post-processing error, the failed post-processing is the last
\* thing it did and the only post-processing it asked for, its type is not none,
\* every gateway call precedes it, and the invocation made no cache write, hook
\* dispatch, karma credit, reputation credit or audit event.
C11_PostProcessFailureIsFatal ==
    \A r \in Requests :
        LET trace == req[r].trace
        IN \A k \in 1 .. Len(trace) :
              (trace[k][1] = "post" /\ ~trace[k][3]) =>
                  /\ req[r].pc = "failed"
                  /\ req[r].error = "PostProcessError"
                  /\ k = Len(trace)
                  /\ Len(TraceOf(r, "post")) = 1
                  /\ trace[k][2] # "none"
                  /\ \A j \in 1 .. Len(trace) : trace[j][1] \notin Effects
                  /\ cache[req[r].nodeId] = NoEntry \/
                         \E q \in Requests \ {r} :
                             /\ req[q].nodeId = req[r].nodeId
                             /\ TraceOf(q, "cache") # <<>>

\* C11 witness: the gateway failed once and then returned; the hash post-processing
\* of the value failed; nothing was cached or credited.
C11_Witness ==
    \E r \in Requests :
        /\ req[r].trace = << <<"call", "contractA", "fail", "timeout">>, <<"wait", 10>>,
                             <<"call", "contractA", "ok", <<"abc123">> >>,
                             <<"post", "hash", FALSE>> >>
        /\ req[r].pc = "failed"
        /\ cache[req[r].nodeId] = NoEntry
        /\ karma[WalletOf[req[r].nodeId]] = 0
        /\ auditLog = << [event |-> "node_created", user |-> WalletOf[req[r].nodeId],
                          details |-> <<req[r].nodeId, "alice">>] >>

\* the errors of the steps that follow the cache write
AfterCacheErrors == {"HookError", "KarmaError", "ReputationError"}

\* the entry invocation r writes to the cache
EntryOf(r) ==
    [value |-> req[r].processed, ttl |-> req[r].node.entropy_agent.cacheTTL]

\* C12: no partial rollback: an invocation that failed in its hook dispatch, karma
\* credit or reputation credit made its cache write before, and no step removes
\* what was written: the step that fails leaves the cache as it was, and the entry
\* of the invocation's node is the one the invocation wrote, with the processed
\* value it fetched, unless another invocation wrote the same node's entry.
C12_NoPartialRollback ==
    [][\A r \in Requests :
          (req'[r].pc = "failed" /\ req'[r].error \in AfterCacheErrors) =>
              LET n == req'[r].nodeId
                  mine == [value |-> req'[r].processed,
                           ttl |-> req'[r].node.entropy_agent.cacheTTL]
              IN /\ SelectSeq(req'[r].trace, LAMBDA e : e[1] = "cache")
                        = << <<"cache", n, mine.value, mine.ttl, TRUE>> >>
                 /\ req[r].pc # "failed" => cache' = cache
                 /\ cache'[n] # NoEntry
                 /\ cache'[n] = mine \/
                        \E q \in Requests \ {r} :
                            /\ req'[q].nodeId = n
                            /\ \E k \in 1 .. Len(req'[q].trace) :
                                   req'[q].trace[k]
                                       = <<"cache", n, cache'[n].value, cache'[n].ttl, TRUE>>]_vars

\* C12 witness: the karma credit failed after the hashed value was cached; the
\* invocation failed and the cache holds the hashed value.
C12_Witness ==
    \E r \in Requests :
        /\ req[r].pc = "failed"
        /\ req[r].error = "KarmaError"
        /\ req[r].processed = <<"hash", "abc123">>
        /\ cache[req[r].nodeId] = EntryOf(r)
        /\ karma[req[r].node.wallet_address] = 0

\* what a step of an invocation asks of its collaborator: the trace entry less
\* the collaborator's reply
Asked(e) ==
    IF e[1] \in {"call", "post", "hook"} THEN <<e[1], e[2]>>
    ELSE IF e[1] \in {"karma", "reputation"} THEN <<e[1], e[2], e[3]>>
    ELSE IF e[1] = "cache" THEN <<e[1], e[2], e[3], e[4]>>
    ELSE e

\* the value an invocation that returned hands back, computed from its own last
\* gateway reply
FetchedBy(r) ==
    LET gateway == TraceOf(r, "call")
        raw == gateway[Len(gateway)][4]
        postProcess == req[r].node.entropy_agent.postProcess
    IN IF needsPostProcess(postProcess)
       THEN executePostProcess(postProcess.type, raw) ELSE raw

\* two invocations of fetchEntropy with the same arguments behave alike, whatever
\* the cache held while each ran: as long as their collaborators replied alike
\* they ask the same of them, and with the same replies throughout they stand at
\* the same point with the same value and the same error
CacheBlind ==
    \A r, q \in Fetching :
        (/\ req[r].nodeId = req[q].nodeId
         /\ req[r].contractIndex = req[q].contractIndex
         /\ req[r].node = req[q].node) =>
            LET tr == req[r].trace
                tq == req[q].trace
            IN /\ \A k \in 1 .. Len(tr) :
                      (k <= Len(tq) /\ SubSeq(tr, 1, k - 1) = SubSeq(tq, 1, k - 1))
                          => Asked(tr[k]) = Asked(tq[k])
               /\ tr = tq =>
                      /\ req[r].pc = req[q].pc
                      /\ req[r].processed = req[q].processed
                      /\ req[r].error = req[q].error

\* C13: the cache is write-only for fetchEntropy: an invocation that has found its
\* node and has not yet heard from a collaborator stands at the gateway call (or,
\* with maxAttempts = 0, past the loop), whatever the cache holds for its node;
\* invocations with the same arguments behave alike whatever the cache holds; and
\* the value returned is the one computed from the invocation's own gateway reply.
C13_CacheIsWriteOnly ==
    /\ \A r \in Fetching :
          req[r].trace = <<>> =>
              req[r].pc = IF PolicyOf(r).maxAttempts >= 1
                          THEN "call" ELSE afterLoop(req[r].node)
    /\ CacheBlind
    /\ \A r \in Fetching :
          req[r].pc = "done" =>
              /\ TraceOf(r, "call") # <<>>
              /\ req[r].processed = FetchedBy(r)

\* C13 witness: the first invocation returned abc123 and the cache holds it; the
\* second, with the same arguments, called the gateway anew and returned def456.
C13_Witness ==
    /\ req[1].pc = "done"
    /\ req[1].processed = <<"abc123">>
    /\ cache[req[1].nodeId] = EntryOf(1)
    /\ req[2].pc = "cache"
    /\ req[2].nodeId = req[1].nodeId
    /\ req[2].trace = << <<"call", "contractA", "ok", <<"def456">> >> >>
    /\ req[2].processed = <<"def456">>

\* C14: fetchEntropy on a nodeId the node store does not hold fails with the
\* not-found error at its entry, before any collaborator is touched: the invocation
\* has no gateway call, cache write, hook, credit or audit event, now or later, and
\* the step leaves the node store, the cache, the ledgers and the audit log alone.
C14_UnknownNodeTouchesNothing ==
    [][\A r \in Requests :
          /\ (/\ req[r].pc = "idle"
              /\ req'[r].op = "fetchEntropy"
              /\ nodes[req'[r].nodeId] = NoNode) =>
                 /\ req'[r].pc = "failed"
                 /\ req'[r].error = "NotFound"
                 /\ UNCHANGED <<nodes, cache, karma, reputation, auditLog>>
          /\ req'[r].error = "NotFound" =>
                 /\ req[r].pc \in {"idle", "failed"}
                 /\ req'[r].pc = "failed"
                 /\ req'[r].trace = <<>>
                 /\ req'[r].node = NoNode]_vars

\* C14 witness: n1 is registered; fetchEntropy(n2) failed with the not-found error
\* and nothing but n1's registration was logged.
C14_Witness ==
    \E r \in Requests :
        /\ req[r].error = "NotFound"
        /\ req[r].nodeId = "n2"
        /\ nodes["n1"] # NoNode
        /\ nodes["n2"] = NoNode
        /\ cache = [n \in NodeIds |-> NoEntry]
        /\ Len(auditLog) = 1

----------------------------------------------------------------------------
(* Properties of node registration *)

\* the audit events of the log with the given name
EventsOf(log, event) == SelectSeq(log, LAMBDA e : e.event = event)

\* what a step leaves of the createNode invocation r: a descriptor the schema
\* rejects fails before the verifier is asked; a proof that does not verify fails
\* with the identity error; in both cases the step changes neither the node store
\* nor the audit log; a proof that verifies has the node stored under its id.
\* Once both checks have passed: whenLogged tells in which case one node_created
\* event is logged, and in the other case none is.
CreateNodeStep(r, whenLogged) ==
    LET before == req[r]
        after == req'[r]
        trace == after.trace
    IN /\ after.error = "ValidationError" =>
              /\ trace = <<>>
              /\ after.pc = "failed"
              /\ (before.pc = "idle" /\ after # before) => UNCHANGED <<nodes, auditLog>>
       /\ trace # <<>> =>
              /\ trace[1][1] = "verify"
              /\ trace[1][4] = verifySoulboundId(after.node.wallet_address,
                                                 after.node.soulboundId)
       /\ (trace # <<>> /\ ~trace[1][4]) =>
              /\ Len(trace) = 1
              /\ after.pc = "failed"
              /\ after.error = "IdentityError"
              /\ (before.pc = "verify" /\ after # before) => UNCHANGED <<nodes, auditLog>>
       /\ (trace # <<>> /\ trace[1][4]) =>
              /\ (before.pc = "verify" /\ after # before) =>
                     /\ nodes' = [nodes EXCEPT ![after.nodeId] = after.node]
                     /\ UNCHANGED auditLog
              /\ (before.pc = "register" /\ after # before /\ whenLogged) =>
                     /\ after.pc = "done"
                     /\ auditLog' = Append(auditLog,
                            [event |-> "node_created",
                             user |-> after.node.wallet_address,
                             details |-> <<after.nodeId, after.node.username>>])
                     /\ Len(SelectSeq(trace, LAMBDA e : e[1] = "audit")) = 1
                     /\ UNCHANGED nodes
              /\ (before.pc = "register" /\ after # before /\ ~whenLogged) =>
                     /\ after.pc = "failed"
                     /\ after.error = "RegisterError"
                     /\ SelectSeq(trace, LAMBDA e : e[1] = "audit") = <<>>
                     /\ UNCHANGED <<nodes, auditLog>>

\* C15 as stated: a descriptor the schema rejects fails before the identity
\* verifier is consulted, a proof that does not verify fails with the identity
\* error, both with the node store unchanged and no node_created event; when both
\* checks pass the node is stored under its nodeId and exactly one node_created
\* event is emitted.
C15_AsClaimed ==
    [][\A r \in Requests :
          req'[r].op = "createNode" => CreateNodeStep(r, TRUE)]_vars

\* C15 amended: as stated for the two rejections and for the storing of the node;
\* once both checks have passed, exactly one node_created event is emitted when
\* the registration of the node with the chain returns, and when it fails the
\* call fails with the node stored and no node_created event.
C15_EventIffRegistered ==
    [][\A r \in Requests :
          req'[r].op = "createNode" =>
              CreateNodeStep(r, \E k \in 1 .. Len(req'[r].trace) :
                                   req'[r].trace[k][1] = "register"
                                   /\ req'[r].trace[k][3])]_vars

\* C15 witness: a forged descriptor was turned down with the identity error and
\* nothing stored; then a well-formed one was stored, registered and logged once.
C15_Witness ==
    /\ req[1].op = "createNode"
    /\ req[1].error = "IdentityError"
    /\ req[2].op = "createNode"
    /\ req[2].pc = "done"
    /\ nodes["n1"] = req[2].node
    /\ Len(EventsOf(auditLog, "node_created")) = 1

----------------------------------------------------------------------------
(* Properties of castVote *)

\* C16: castVote from a node that lacks the voter role, or whose reputation_score
\* is strictly below governance.proposalThreshold, fails at its entry with the
\* authorization error: the vote is not submitted, votes_cast is not raised, and
\* there is no credit and no audit event, then or later; a node with the voter
\* role and a score equal to or above the threshold has its vote submitted.
C16_AuthorizationFloor ==
    [][\A r \in Requests :
          /\ (req[r].pc = "idle" /\ req'[r].op = "castVote"
                                 /\ nodes[req'[r].nodeId] # NoNode) =>
                 LET node == nodes[req'[r].nodeId]
                 IN IF \/ "voter" \notin node.roles
                       \/ node.reputation_score < node.governance.proposalThreshold
                    THEN /\ req'[r].pc = "failed"
                         /\ req'[r].error = "AuthorizationError"
                         /\ UNCHANGED <<nodes, karma, reputation, auditLog>>
                    ELSE /\ req'[r].pc = "submit"
                         /\ req'[r].error = "none"
          /\ req'[r].error = "AuthorizationError" =>
                 /\ req'[r].pc = "failed"
                 /\ req'[r].trace = <<>>
                 /\ req[r].pc \in {"idle", "failed"}]_vars

\* C16 witness: a voter whose score 49 is below the threshold 50 was turned down,
\* its votes_cast still 0 and nothing credited or logged for the vote.
C16_Witness ==
    \E r \in Requests :
        /\ req[r].op = "castVote"
        /\ req[r].error = "AuthorizationError"
        /\ "voter" \in req[r].node.roles
        /\ req[r].node.reputation_score = 490
        /\ req[r].node.governance.proposalThreshold = 500
        /\ nodes[req[r].nodeId].votes_cast = 0
        /\ karma = [w \in Wallets |-> 0]
        /\ EventsOf(auditLog, "vote_cast") = <<>>

----------------------------------------------------------------------------
(* Further properties of the quorum consensus engine *)

\* C17: verifySignal and quorumConsensusCheck on a signalId that no signal of the
\* log has fail with the not-found error and leave the signal log, the
\* consensus-record log, the ritual log and the audit log unchanged.
C17_UnknownSignalChangesNothing ==
    [][(/\ IsCall("verifySignal") \/ IsCall("quorumConsensusCheck")
        /\ \A i \in 1 .. Len(Signals) : Signals[i].id # lastCall'.signalId) =>
           /\ lastCall'.outcome = "NotFound"
           /\ ritualData'.signals = Signals
           /\ ritualData'.consensusRecords = Records
           /\ ritualData'.rituals = Rituals
           /\ auditLog' = auditLog]_vars

\* C17 witness: with a verified signal and its events in the logs, a
\* quorumConsensusCheck on an id no signal has failed with the not-found error.
C17_Witness ==
    /\ lastCall.op = "quorumConsensusCheck"
    /\ lastCall.outcome = "NotFound"
    /\ Len(Signals) = 1
    /\ Signals[1].verificationCount = 1
    /\ Signals[1].id # lastCall.signalId
    /\ Records = <<>>
    /\ Len(auditLog) = 2

\* C18: a quorumConsensusCheck on an existing signal appends exactly one
\* ConsensusRecord, holding the signalId, the count and the verdict of the call;
\* no other call appends one; and no call changes a record the log already holds,
\* whatever verifySignal does to the signal's count afterwards.
C18_RecordsAppendOnly ==
    [][/\ Len(ritualData'.consensusRecords) >= Len(Records)
       /\ SubSeq(ritualData'.consensusRecords, 1, Len(Records)) = Records
       /\ IF \E i \in 1 .. Len(Signals) : IsCallOn("quorumConsensusCheck", i)
          THEN LET i == findSignal(ritualData, lastCall'.signalId)
               IN ritualData'.consensusRecords =
                      Append(Records,
                             [signalId |-> lastCall'.signalId,
                              reached |-> Signals[i].verificationCount >= lastCall'.arg,
                              verifications |-> Signals[i].verificationCount])
          ELSE ritualData'.consensusRecords = Records]_vars

\* C18 witness: a record taken at count 1 still says 1, not reached for the
\* threshold 2, after a verifySignal raised the signal's count to 2.
C18_Witness ==
    /\ lastCall.op = "verifySignal"
    /\ lastCall.outcome = "ok"
    /\ lastCall.result.verificationCount = 2
    /\ \E k \in 1 .. Len(Records) :
          Records[k] = [signalId |-> lastCall.signalId, reached |-> FALSE,
                        verifications |-> 1]

\* C19 as stated: every operation that returns (initiateSignal, verifySignal,
\* executeRitual, quorumConsensusCheck, and createNode, fetchEntropy, castVote at
\* their last step) appends exactly one event to the audit log; so does a
\* quorumConsensusCheck that returns a record, be its verdict TRUE or FALSE.
C19_OneAuditEventPerSuccess ==
    [][/\ (calls' = calls + 1 /\ lastCall'.outcome = "ok") =>
              Len(auditLog') = Len(auditLog) + 1
       /\ \A r \in Requests :
              (req[r].pc # "done" /\ req'[r].pc = "done") =>
                  /\ Len(auditLog') = Len(auditLog) + 1
                  /\ Len(SelectSeq(req'[r].trace, LAMBDA e : e[1] = "audit")) = 1]_vars

\* C20: the calls of the consensus engine are atomic amid suspended fetchEntropy
\* and castVote invocations: after every step each signal's verificationCount is
\* the number of verifySignal calls made on it (no update is lost); the record a
\* quorumConsensusCheck appends holds the number of verifySignal calls made on the
\* signal before it; a step of a suspended invocation changes no signal, record or
\* Ritual; and a Ritual is appended by the very step that appends the
\* reached = TRUE record it belongs to, so that no step lies between the two.
C20_ConsensusCallsAreAtomic ==
    [][/\ \A i \in 1 .. Len(ritualData'.signals) :
             ritualData'.signals[i].verificationCount
                 = verifyRequests'[ritualData'.signals[i].id]
       /\ \A i \in 1 .. Len(Signals) :
             IsCallOn("quorumConsensusCheck", i) =>
                 LET rec == ritualData'.consensusRecords[Len(Records) + 1]
                     pushed == [ritualData EXCEPT !.consensusRecords = Append(@, rec)]
                 IN /\ rec.verifications = verifyRequests[Signals[i].id]
                    /\ (rec.reached /\ validate(pushed)) =>
                           Len(ritualData'.rituals) = Len(Rituals) + 1
       /\ calls' = calls => ritualData' = ritualData
       /\ Len(ritualData'.rituals) > Len(Rituals) =>
             /\ IsCall("quorumConsensusCheck")
             /\ Len(ritualData'.consensusRecords) = Len(Records) + 1
             /\ ritualData'.consensusRecords[Len(Records) + 1].reached
             /\ Len(ritualData'.rituals) = Len(Rituals) + 1
             /\ ritualData'.rituals[Len(Rituals) + 1].actions
                    = stampActions(consensusActions(lastCall'.signalId))]_vars

\* C20 witness: two verifySignal calls and, between them, a check that reached the
\* threshold 1 and appended its Ritual, all made while a fetchEntropy invocation
\* is suspended at its cache write and a castVote invocation at its karma credit.
C20_Witness ==
    /\ Len(Signals) = 1
    /\ Signals[1].verificationCount = 2
    /\ verifyRequests[Signals[1].id] = 2
    /\ Records = << [signalId |-> Signals[1].id, reached |-> TRUE, verifications |-> 1] >>
    /\ Len(Rituals) = 1
    /\ \E r, q \in Requests :
          /\ req[r].op = "fetchEntropy" /\ req[r].pc = "cache"
          /\ req[q].op = "castVote" /\ req[q].pc = "voteKarma"
          /\ nodes[req[q].nodeId].votes_cast = 1

----------------------------------------------------------------------------
(* C21: the cache holds the most recent entropy.  Whenever two or more      *)
(* fetchEntropy invocations on one node have all completed, the node's      *)
(* cache entry is the processed value of the invocation whose gateway call  *)
(* returned last, never one obtained from an earlier gateway response.      *)
(* The code does not order the cache writes by the gateway replies: the     *)
(* invocation that was answered first may write last.                       *)
FetchesOn(n) == {r \in Fetching : req[r].nodeId = n}

C21_CacheHoldsLatestReply ==
    \A n \in NodeIds :
        (/\ Cardinality(FetchesOn(n)) >= 2
         /\ \A r \in FetchesOn(n) : req[r].pc = "done")
        => cache[n].value = req[lastReply[n]].processed

----------------------------------------------------------------------------
\* the signal an initiateSignal step appended, and what the claim says of it
AppendedSignal == ritualData'.signals[Len(Signals) + 1]

AppendsOneSignal ==
    /\ Len(ritualData'.signals) = Len(Signals) + 1
    /\ SubSeq(ritualData'.signals, 1, Len(Signals)) = Signals
    /\ \A i \in 1 .. Len(Signals) : Signals[i].id # AppendedSignal.id
    /\ AppendedSignal.status = "pending"
    /\ AppendedSignal.verificationCount = 0
    /\ AppendedSignal.initiator = lastCall'.arg[1]
    /\ AppendedSignal.type = lastCall'.arg[2]
    /\ AppendedSignal.payload = lastCall'.arg[3]
    /\ ritualData'.consensusRecords = Records
    /\ ritualData'.rituals = Rituals

SignalInitiatedEvent ==
    [event |-> "signal_initiated", user |-> lastCall'.arg[1],
     details |-> <<lastCall'.arg[2], lastCall'.arg[3]>>]

----------------------------------------------------------------------------
\* the Ritual an executeRitual step appended, and what the claim says of it
AppendedRitual == ritualData'.rituals[Len(Rituals) + 1]

AppendsOneRitual ==
    LET ritualId == lastCall'.arg[1]
        initiator == lastCall'.arg[2]
        actions == lastCall'.arg[3]
    IN /\ Len(ritualData'.rituals) = Len(Rituals) + 1
       /\ SubSeq(ritualData'.rituals, 1, Len(Rituals)) = Rituals
       /\ AppendedRitual.status = "completed"
       /\ AppendedRitual.initiator = initiator
       /\ Len(AppendedRitual.actions) = Len(actions)
       /\ \A j \in 1 .. Len(actions) :
              /\ AppendedRitual.actions[j].type = actions[j].type
              /\ AppendedRitual.actions[j].target = actions[j].target
              /\ AppendedRitual.actions[j].executedAt = Now
       /\ IF ritualId = NoId
          THEN /\ AppendedRitual.id[1] = "uuid"
               /\ \A i \in 1 .. Len(Rituals) : Rituals[i].id # AppendedRitual.id
          ELSE AppendedRitual.id = ritualId
       /\ ritualData'.signals = Signals
       /\ ritualData'.consensusRecords = Records

RitualExecutedEvent ==
    [event |-> "ritual_executed", user |-> lastCall'.arg[2],
     details |-> <<lastCall'.arg[1], lastCall'.arg[3]>>]

----------------------------------------------------------------------------
\* old is a prefix of new
Extends(new, old) ==
    /\ Len(new) >= Len(old)
    /\ SubSeq(new, 1, Len(old)) = old

\* what of a Signal no operation rewrites: verifySignal rewrites count and status
IdentityOf(signal) ==
    [id |-> signal.id, initiator |-> signal.initiator,
     type |-> signal.type, payload |-> signal.payload]

IdentitiesOf(signals) == [i \in 1 .. Len(signals) |-> IdentityOf(signals[i])]

\* C24: the signal, consensus-record and ritual logs are append-only.  Every step
\* leaves each log an extension of what it was: no entry is removed or
\* reordered, no length decreases; the records and the Rituals the logs hold are
\* never modified; a Signal keeps its place and its identity, and
\* quorumConsensusCheck and executeRitual leave every Signal as it was (none is
\* deleted or marked consumed).  Extension is transitive, so each log extends
\* what it was in every earlier state.
C24_LogsAppendOnly ==
    [][/\ Extends(IdentitiesOf(ritualData'.signals), IdentitiesOf(Signals))
       /\ Extends(ritualData'.consensusRecords, Records)
       /\ Extends(ritualData'.rituals, Rituals)
       /\ (IsCall("quorumConsensusCheck") \/ IsCall("executeRitual")) =>
              ritualData'.signals = Signals]_vars

\* C24 witness: a check reached the threshold and its Ritual was appended after
\* the Ritual of an earlier direct call; the checked signal is still in the log,
\* verified, with its count.
C24_Witness ==
    /\ lastCall.op = "quorumConsensusCheck"
    /\ lastCall.outcome = "ok"
    /\ lastCall.result.reached
    /\ Len(Rituals) = 2
    /\ Rituals[1].id = <<"given", 1>>
    /\ Rituals[2].actions = stampActions(consensusActions(lastCall.signalId))
    /\ Records = <<lastCall.result>>
    /\ Len(Signals) = 1
    /\ Signals[1].id = lastCall.signalId
    /\ Signals[1].status = "verified"
    /\ Signals[1].verificationCount = 1

----------------------------------------------------------------------------
\* the record of a node, but for the votes it has cast
RecordOf(node) == [node EXCEPT !.votes_cast = 0]

\* C25: a node is created once and never deleted.  Once a node is stored under
\* a nodeId, no step removes it from the store or replaces its record: the
\* record stays what it was, its count of cast votes never falling, also when
\* another createNode is given a descriptor carrying the same nodeId.
C25_NodeCreatedOnce ==
    [][\A n \in NodeIds :
          nodes[n] # NoNode =>
              /\ nodes'[n] # NoNode
              /\ RecordOf(nodes'[n]) = RecordOf(nodes[n])
              /\ nodes'[n].votes_cast >= nodes[n].votes_cast]_vars

----------------------------------------------------------------------------
\* C26: an invocation that exhausted its retries failed with an error carrying
\* the attempt count maxAttempts and the cause of the last failed gateway call,
\* whatever the earlier calls failed with; a failure followed by another attempt
\* is not surfaced; and the exhausted invocation did nothing but call and wait:
\* no post-processing, cache write, hook, credit or audit event.
C26_ExhaustionReportsLastCause ==
    \A r \in Fetching :
        LET gateway == TraceOf(r, "call")
            kinds == {req[r].trace[k][1] : k \in 1 .. Len(req[r].trace)}
        IN /\ req[r].error = "EntropyFetchError" =>
                /\ req[r].pc = "failed"
                /\ req[r].attempts = PolicyOf(r).maxAttempts
                /\ Len(gateway) = req[r].attempts
                /\ \A k \in 1 .. Len(gateway) : gateway[k][3] = "fail"
                /\ req[r].cause = gateway[Len(gateway)][4]
                /\ kinds \subseteq {"call", "wait"}
                /\ req[r].processed = Undefined
           /\ req[r].pc \in {"call", "backoff"} => req[r].error = "none"

\* C26 witness: with maxAttempts = 2 the gateway failed for one cause, then for
\* another; the invocation failed reporting 2 attempts and the second cause, while
\* the cache and the ledgers are as they were.
C26_Witness ==
    \E r \in Fetching :
        /\ PolicyOf(r).maxAttempts = 2
        /\ req[r].error = "EntropyFetchError"
        /\ TraceOf(r, "call") = << <<"call", "contractA", "fail", "network">>,
                                   <<"call", "contractA", "fail", "timeout">> >>
        /\ req[r].attempts = 2
        /\ req[r].cause = "timeout"
        /\ cache[req[r].nodeId] = NoEntry
        /\ karma[WalletOf[req[r].nodeId]] = 0
        /\ Len(EventsOf(auditLog, "entropy_fetched")) = 0

----------------------------------------------------------------------------
\* C27: post-processing passthrough.  With postProcess.type none the
\* post-processor is never invoked and the value cached and the value returned
\* are the raw gateway value; with another type the post-processor is invoked
\* exactly once, on the raw value, before the cache write, and its result is the
\* value cached and the value returned.
C27_PostProcessPassthrough ==
    \A r \in Fetching :
        LET type == req[r].node.entropy_agent.postProcess.type
            posts == TraceOf(r, "post")
            caches == TraceOf(r, "cache")
            gateway == TraceOf(r, "call")
            raw == gateway[Len(gateway)][4]
            expected == IF type = "none" THEN raw ELSE executePostProcess(type, raw)
        IN /\ Len(posts) <= 1
           /\ Len(caches) <= 1
           /\ type = "none" => posts = <<>>
           /\ posts # <<>> => posts[1][2] = type
           /\ caches # <<>> =>
                 /\ gateway[Len(gateway)][3] = "ok"
                 /\ type # "none" => posts = << <<"post", type, TRUE>> >>
                 /\ caches[1][3] = expected
           /\ req[r].pc = "done" =>
                 /\ Len(caches) = 1
                 /\ req[r].processed = expected

\* C27 witness: two invocations returned on a node whose type is hash, one with
\* the hash of each gateway value.
C27_Witness ==
    \E r, q \in Fetching :
        /\ req[r].node.entropy_agent.postProcess.type = "hash"
        /\ req[r].pc = "done" /\ req[q].pc = "done"
        /\ req[r].entropy = <<"abc123">>
        /\ req[r].processed = <<"hash", "abc123">>
        /\ req[q].entropy = <<"def456">>
        /\ req[q].processed = <<"hash", "def456">>
        /\ Len(TraceOf(r, "post")) = 1
        /\ cache[req[r].nodeId].value \in {req[r].processed, req[q].processed}

\* C27 witness, type none: the raw value was cached and returned, no
\* post-processor run
C27_WitnessNone ==
    \E r \in Fetching :
        /\ req[r].node.entropy_agent.postProcess.type = "none"
        /\ req[r].pc = "done"
        /\ req[r].processed = <<"def456">>
        /\ TraceOf(r, "post") = <<>>

----------------------------------------------------------------------------
\* C28: every node that createNode stores has reputation_score 50, whatever the
\* descriptor contains.  (No operation of the controller writes the field after
\* creation, so the score of a stored node is its score at creation.)
C28_InitialReputationIsFifty ==
    \A n \in NodeIds : nodes[n] # NoNode => nodes[n].reputation_score = 500

----------------------------------------------------------------------------
\* C29: reputation earned by fetching gates voting.  Each successful
\* fetchEntropy credits the node the fixed fetch increment, so a castVote of a
\* node with the voter role is turned down with the authorization error only
\* while the node's score at creation and the reputation credited to it since
\* are together below governance.proposalThreshold.
C29_FetchingUnlocksVoting ==
    [][\A q \in Requests :
          (/\ req[q].op = "none"
           /\ req'[q].op = "castVote"
           /\ req'[q].error = "AuthorizationError"
           /\ "voter" \in req'[q].node.roles) =>
              req'[q].node.reputation_score
                  + reputation[req'[q].node.wallet_address]
              < req'[q].node.governance.proposalThreshold]_vars

----------------------------------------------------------------------------
----------------------------------------------------------------------------
\* the castVote invocations that stand past their entry checks
Voting == {q \in Requests : req[q].op = "castVote" /\ req[q].node # NoNode}

\* the submission of q's vote to the gateway returned
Submitted(q) ==
    \E k \in 1 .. Len(req[q].trace) :
        req[q].trace[k][1] = "submit" /\ req[q].trace[k][5]

\* C31: castVote commits in order.  A node's votes_cast counts exactly the
\* invocations whose submission to the gateway returned: one per invocation, and
\* none before the submission succeeded.  An invocation whose submission failed
\* did nothing else: no hook, no credit, no vote_cast event.  An invocation that
\* failed at a later step (hook, karma or reputation credit) had its submission
\* accepted, and its vote stays counted.
C31_VoteCommitsInOrder ==
    /\ \A n \in NodeIds :
           nodes[n] # NoNode =>
               nodes[n].votes_cast =
                   Cardinality({q \in Voting : req[q].nodeId = n /\ Submitted(q)})
    /\ \A q \in Voting :
           /\ req[q].pc = "submit" => req[q].trace = <<>>
           /\ req[q].error = "SubmitError" =>
                 /\ Len(req[q].trace) = 1
                 /\ req[q].trace[1][1] = "submit"
                 /\ ~req[q].trace[1][5]
           /\ req[q].trace # <<>> =>
                 /\ req[q].trace[1][1] = "submit"
                 /\ Len(TraceOf(q, "submit")) = 1
           /\ req[q].error \in {"HookError", "KarmaError", "ReputationError"} =>
                 Submitted(q)
    /\ Len(EventsOf(auditLog, "vote_cast")) =
           Cardinality({q \in Voting : req[q].pc = "done"})

\* C31 witness: one vote failed at its submission, another at its karma credit
\* after its hook had run; the node counts one vote, and nothing was credited or
\* logged.
C31_Witness ==
    \E q, r \in Voting :
        /\ req[q].error = "SubmitError"
        /\ req[r].error = "KarmaError"
        /\ Len(TraceOf(r, "hook")) = 1
        /\ req[q].nodeId = req[r].nodeId
        /\ nodes[req[r].nodeId].votes_cast = 1
        /\ karma = [w \in Wallets |-> 0]
        /\ reputation = [w \in Wallets |-> 0]
        /\ EventsOf(auditLog, "vote_cast") = <<>>

----------------------------------------------------------------------------
\* the mutation that a RitualController call makes before it validates
MutationOf(op) ==
    LET i == findSignal(ritualData, lastCall'.signalId)
    IN CASE op = "initiateSignal" ->
              /\ Len(ritualData'.signals) = Len(Signals) + 1
              /\ SubSeq(ritualData'.signals, 1, Len(Signals)) = Signals
              /\ ritualData'.signals[Len(Signals) + 1].payload = lastCall'.arg[3]
              /\ ritualData'.signals[Len(Signals) + 1].status = "pending"
              /\ ritualData'.consensusRecords = Records
              /\ ritualData'.rituals = Rituals
         [] op = "verifySignal" ->
              /\ i # 0
              /\ ritualData'.signals =
                     [Signals EXCEPT
                         ![i].verificationCount = @ + 1,
                         ![i].status = IF lastCall'.arg[2] THEN "verified"
                                       ELSE "rejected"]
              /\ ritualData'.consensusRecords = Records
              /\ ritualData'.rituals = Rituals
         [] op = "executeRitual" ->
              /\ Len(ritualData'.rituals) = Len(Rituals) + 1
              /\ SubSeq(ritualData'.rituals, 1, Len(Rituals)) = Rituals
              /\ ritualData'.rituals[Len(Rituals) + 1].actions
                     = stampActions(lastCall'.arg[3])
              /\ ritualData'.signals = Signals
              /\ ritualData'.consensusRecords = Records
         [] op = "quorumConsensusCheck" ->
              /\ i # 0
              /\ ritualData'.consensusRecords =
                     Append(Records,
                            [signalId |-> lastCall'.signalId,
                             reached |-> Signals[i].verificationCount >= lastCall'.arg,
                             verifications |-> Signals[i].verificationCount])
              /\ ritualData'.signals = Signals
              /\ ritualData'.rituals = Rituals

\* C32: the consensus-engine operations mutate before they validate and never
\* roll back.  A call that fails on the validation of the store leaves its
\* mutation in the store (the appended Signal, the raised count and overwritten
\* status, the appended Ritual, the appended ConsensusRecord) and emits no audit
\* event; a quorumConsensusCheck that fails so leaves the ritual log as it was,
\* also when the record it appended has reached = TRUE.
C32_MutateThenValidate ==
    [][(calls' = calls + 1 /\ lastCall'.outcome = "ValidationError") =>
          /\ ~validate(ritualData')
          /\ MutationOf(lastCall'.op)
          /\ auditLog' = auditLog
          /\ lastCall'.result = NoResult]_vars

\* C32 witness: on a store holding a malformed signal, a verifySignal failed
\* with its count and status written, and then a quorumConsensusCheck failed
\* with its reached = TRUE record appended: no Ritual, no audit event.
C32_Witness ==
    /\ lastCall.op = "quorumConsensusCheck"
    /\ lastCall.outcome = "ValidationError"
    /\ Len(Signals) = 1
    /\ Signals[1].verificationCount = 1
    /\ Signals[1].status = "rejected"
    /\ Records = <<[signalId |-> Signals[1].id, reached |-> TRUE, verifications |-> 1]>>
    /\ Rituals = <<>>
    /\ auditLog = <<>>

----------------------------------------------------------------------------
\* C33: a fetchEntropy invocation returns only if one of its own gateway calls
\* succeeded, and what it returns is that call's value, post-processed or not,
\* whatever retryPolicy.maxAttempts >= 0 is.  With maxAttempts = 0 the loop body
\* never runs, and the code goes on with the entropy it never assigned.
C33_ReturnsGatewayValue ==
    \A r \in Fetching :
        req[r].pc = "done" =>
            \E k \in 1 .. Len(TraceOf(r, "call")) :
                LET call == TraceOf(r, "call")[k]
                    type == req[r].node.entropy_agent.postProcess.type
                IN /\ call[3] = "ok"
                   /\ req[r].processed \in {call[4], executePostProcess(type, call[4])}

----------------------------------------------------------------------------
Statuses == {"pending", "verified", "rejected"}

\* C34: the outcome of quorumConsensusCheck is independent of the signal's
\* status.  In every reachable state, for every signal and every threshold, the
\* check made on the state and the check made on a state that differs from it
\* only in that signal's status have the same outcome, return the same record
\* and leave the same record log and ritual log.  So the check of a signal whose
\* count is >= k returns reached = TRUE and appends its consensus_approved
\* Ritual whatever the status: rejected by every verification, or pending and
\* never verified when k <= 0.
C34_StatusBlindQuorum ==
    /\ \A i \in 1 .. Len(Signals), status \in Statuses, k \in ThresholdsFromZero :
           LET other == [ritualData EXCEPT !.signals[i].status = status]
               here == quorumConsensusCheck(ritualData, auditLog, Signals[i].id, k)
               there == quorumConsensusCheck(other, auditLog, Signals[i].id, k)
           IN /\ there.outcome = here.outcome
              /\ there.result = here.result
              /\ there.data.consensusRecords = here.data.consensusRecords
              /\ there.data.rituals = here.data.rituals
              /\ there.log = here.log
    /\ (/\ lastCall.op = "quorumConsensusCheck"
        /\ lastCall.outcome = "ok"
        /\ lastCall.prev.verificationCount >= lastCall.arg) =>
           /\ lastCall.result.reached
           /\ IsConsensusRitual(Rituals[Len(Rituals)], lastCall.prev)

\* C34 witness: a pending signal, never verified, was checked against the
\* threshold 0, and, once its only verification had rejected it, against 1: both
\* checks reached consensus and each appended its Ritual.
C34_Witness ==
    /\ lastCall.op = "quorumConsensusCheck"
    /\ lastCall.outcome = "ok"
    /\ lastCall.arg = 1
    /\ lastCall.prev.status = "rejected"
    /\ Len(Signals) = 1
    /\ VerifiedBy("v1", Signals[1].id) + VerifiedBy("v2", Signals[1].id) = 1
    /\ Records = << [signalId |-> Signals[1].id, reached |-> TRUE, verifications |-> 0],
                    [signalId |-> Signals[1].id, reached |-> TRUE, verifications |-> 1] >>
    /\ Len(Rituals) = 2
    /\ \A j \in 1 .. 2 : IsConsensusRitual(Rituals[j], Signals[1])

----------------------------------------------------------------------------
\* C35: provenance of consensus rituals.  In every reachable state, for every
\* signal s, the Rituals that hold an action {consensus_approved, s} are as many
\* as the ConsensusRecords of s with reached = TRUE.
C35_RitualsMatchReachedRecords ==
    \A id \in 1 .. MaxSignals :
        LET Approves(ritual) ==
                \E j \in 1 .. Len(ritual.actions) :
                    /\ ritual.actions[j].type = "consensus_approved"
                    /\ ritual.actions[j].target = id
            Reached(rec) == rec.signalId = id /\ rec.reached
        IN CountOf(Rituals, Approves) = CountOf(Records, Reached)

----------------------------------------------------------------------------
\* the place of a trace entry in the order of fetchEntropy's side effects; the
\* retry loop's failed calls and waits have place 0
PlaceOf(e) ==
    CASE e[1] = "call" -> IF e[3] = "ok" THEN 1 ELSE 0
      [] e[1] = "post" -> 2
      [] e[1] = "cache" -> 3
      [] e[1] = "hook" -> 4
      [] e[1] = "karma" -> 5
      [] e[1] = "reputation" -> 6
      [] e[1] = "audit" -> 7
      [] OTHER -> 0

\* the step the entry records returned rather than threw
Succeeded(e) ==
    CASE e[1] = "call" -> e[3] = "ok"
      [] e[1] = "post" -> e[3]
      [] e[1] = "cache" -> e[5]
      [] e[1] = "hook" -> e[3]
      [] e[1] = "karma" -> e[4]
      [] e[1] = "reputation" -> e[4]
      [] OTHER -> TRUE

\* the places a node's configuration asks an invocation to pass through
PlacesOf(node) ==
    {1, 3, 5, 6, 7}
        \cup (IF needsPostProcess(node.entropy_agent.postProcess) THEN {2} ELSE {})
        \cup (IF hasEntropyHook(node) THEN {4} ELSE {})

\* the side effects of invocation r, in the order it made them
StepsOf(r) == SelectSeq(req[r].trace, LAMBDA e : PlaceOf(e) > 0)

\* the steps come in the order of their places, none twice, each after the
\* success of the one before, none of the node's places skipped from first
InOrderFrom(r, first) ==
    LET steps == StepsOf(r)
    IN \A k \in 1 .. Len(steps) :
          /\ PlaceOf(steps[k]) \in PlacesOf(req[r].node)
          /\ k < Len(steps) => Succeeded(steps[k])
          /\ \A p \in PlacesOf(req[r].node) :
                (first <= p /\ p < PlaceOf(steps[k])) =>
                    \E j \in 1 .. (k - 1) : PlaceOf(steps[j]) = p
          /\ \A j \in 1 .. (k - 1) : PlaceOf(steps[j]) < PlaceOf(steps[k])

\* C36: the order of the side effects of a fetchEntropy invocation: successful
\* gateway call, post-processing, cache write, hook dispatch, karma credit,
\* reputation credit, entropy_fetched audit event; each step is made only once
\* every earlier step has succeeded, so an invocation that logged the event has
\* written the cache and made both credits.
C36_SideEffectsInOrder ==
    \A r \in Fetching :
        /\ InOrderFrom(r, 1)
        /\ TraceOf(r, "audit") # <<>> =>
              /\ Len(TraceOf(r, "cache")) = 1
              /\ Len(TraceOf(r, "karma")) = 1
              /\ Len(TraceOf(r, "reputation")) = 1

\* the order holds from the post-processing on, whether or not a gateway call
\* was made: what fails for maxAttempts = 0 is the first place alone
SideEffectsInOrderAfterLoop ==
    \A r \in Fetching :
        /\ InOrderFrom(r, 2)
        /\ PolicyOf(r).maxAttempts >= 1 => InOrderFrom(r, 1)

----------------------------------------------------------------------------
\* C37: fetchEntropy always terminates.  Provided every collaborator call and
\* every backoff wait eventually returns, an invocation eventually returns a
\* value or fails, whatever the gateway answers; and it never makes more than
\* maxAttempts gateway calls.
C37_FetchTerminates ==
    /\ \A r \in Requests :
           (req[r].op = "fetchEntropy") ~> (req[r].pc \in {"done", "failed"})
    /\ [](\A r \in Fetching : Len(TraceOf(r, "call")) <= PolicyOf(r).maxAttempts)

\* C37 witness: with maxAttempts = 2, an invocation has returned after a failed
\* and a successful call, and another has failed after two failed calls.
C37_Witness ==
    \E r, q \in Fetching :
        /\ PolicyOf(r).maxAttempts = 2
        /\ req[r].pc = "done"
        /\ Len(TraceOf(r, "call")) = 2
        /\ req[q].pc = "failed"
        /\ req[q].error = "EntropyFetchError"
        /\ Len(TraceOf(q, "call")) = 2
        /\ Len(TraceOf(q, "wait")) = 1

----------------------------------------------------------------------------
\* C38: a node's staking balance is never negative.  Starting from a
\* non-negative balance and under any interleaving of updateStakingBalance
\* invocations on the node, the balance stays >= 0; a withdrawal beyond the
\* balance fails with the insufficient-balance error and leaves the balance as it
\* was; an accepted update has changed the balance by its amount before the
\* invocation first suspends, and neither the return nor the failure of
\* chainAdapter.updateStaking changes the balance again.
Staking == {r \in Requests : req[r].op = "updateStakingBalance"}

BalanceNonNegative ==
    \A n \in NodeIds : nodes[n] # NoNode => nodes[n].staking_balance >= 0

StakingStep ==
    \A r \in Requests :
        (req'[r] # req[r] /\ req'[r].op = "updateStakingBalance" /\ req'[r].error # "NotFound")
        => LET n == req'[r].nodeId
               amount == req'[r].args[1]
           IN /\ req[r].pc = "idle" =>
                    IF amount < 0 /\ nodes[n].staking_balance + amount < 0
                    THEN /\ req'[r].pc = "failed"
                         /\ req'[r].error = "InsufficientStakingBalance"
                         /\ nodes' = nodes
                    ELSE /\ req'[r].pc = "staking"
                         /\ nodes'[n].staking_balance = nodes[n].staking_balance + amount
              /\ req[r].pc = "staking" =>
                    /\ nodes' = nodes
                    /\ req'[r].pc \in {"done", "failed"}
                    /\ req'[r].pc = "failed" => req'[r].error = "StakingError"

C38_StakingNeverNegative == []BalanceNonNegative /\ [][StakingStep]_vars

\* C38 witness: two invocations on one node were interleaved: a withdrawal was
\* refused while a deposit was waiting on the collaborator, the collaborator then
\* failed, and the deposit is still in the balance.
C38_Witness ==
    \E r, q \in Staking :
        /\ req[r].nodeId = req[q].nodeId
        /\ req[r].pc = "failed" /\ req[r].error = "StakingError"
        /\ req[r].args[1] > 0
        /\ req[q].pc = "failed" /\ req[q].error = "InsufficientStakingBalance"
        /\ nodes[req[r].nodeId].staking_balance = req[r].args[2]
        /\ nodes[req[r].nodeId].staking_balance > 0

----------------------------------------------------------------------------
\* C39: SovereignEntropyNodeModel.fetchEntropy and the controller's
\* fetchEntropy are equivalent but for the credits.  On a node without an
\* onEntropyFetch hook, an invocation of each with the same contract index that
\* was given the same answers by the gateway, the post-processor and the cache
\* has made the same gateway calls and backoff waits, written the same cache
\* entry, emitted the same entropy_fetched event and returned the same value or
\* failed the same way; the controller has also credited the karma wage and the
\* reputation, the Model has credited nothing.
Ended(r) == req[r].pc \in {"done", "failed"}

ByController == {r \in Requests : req[r].op = "fetchEntropy" /\ Ended(r)}

ByModel == {r \in Requests : req[r].op = ModelFetch /\ Ended(r)}

\* what a collaborator answered: the gateway's value or error, whether the
\* post-processor and the cache returned
AnswerOf(e) ==
    IF e[1] = "call" THEN <<"call", e[3], e[4]>>
    ELSE IF e[1] = "post" THEN <<"post", e[3]>>
    ELSE <<"cache", e[5]>>

RECURSIVE AnswersIn(_)
AnswersIn(trace) ==
    IF trace = <<>> THEN <<>>
    ELSE IF trace[1][1] \in {"call", "post", "cache"}
    THEN <<AnswerOf(trace[1])>> \o AnswersIn(Tail(trace))
    ELSE AnswersIn(Tail(trace))

\* two invocations were given the same answers as far as both asked: given
\* them, neither may end while the other goes on asking
SameAnswers(a, b) ==
    \/ Len(a) <= Len(b) /\ a = SubSeq(b, 1, Len(a))
    \/ Len(b) <= Len(a) /\ b = SubSeq(a, 1, Len(b))

\* the steps of an invocation other than its credits
Uncredited(trace) == SelectSeq(trace, LAMBDA e : e[1] \notin {"karma", "reputation"})

\* the entropy_fetched event of a fetch on the node with the contract index
FetchedEvent(node, contractIndex) ==
    [event |-> "entropy_fetched", user |-> node.wallet_address,
     details |-> <<node.node_id, node.entropy_agent.contracts[contractIndex]>>]

\* the invocations of either implementation that returned with the contract index
Returned(contractIndex) ==
    {r \in ByController \cup ByModel :
        req[r].pc = "done" /\ req[r].contractIndex = contractIndex}

\* the controller's invocations that made the credit
CreditedBy(kind) ==
    {r \in Requests : req[r].op = "fetchEntropy" /\ Len(TraceOf(r, kind)) = 1}

C39_ModelMatchesController ==
    /\ \A r \in ByController, q \in ByModel :
           (/\ req[r].contractIndex = req[q].contractIndex
            /\ SameAnswers(AnswersIn(req[r].trace), AnswersIn(req[q].trace)))
           => /\ AnswersIn(req[r].trace) = AnswersIn(req[q].trace)
              /\ Uncredited(req[r].trace) = req[q].trace
              /\ req[r].pc = req[q].pc
              /\ req[r].processed = req[q].processed
              /\ req[r].error = req[q].error
              /\ req[r].cause = req[q].cause
              /\ req[r].pc = "done" =>
                     /\ Len(TraceOf(r, "karma")) = 1
                     /\ Len(TraceOf(r, "reputation")) = 1
    /\ \A contractIndex \in 1 .. 2 :
           Cardinality({i \in 1 .. Len(auditLog) :
                           auditLog[i] = FetchedEvent(nodes["n1"], contractIndex)})
               = Cardinality(Returned(contractIndex))
    /\ karma["w1"] = nodes["n1"].karmaWage * Cardinality(CreditedBy("karma"))
    /\ reputation["w1"] = FetchReputation * Cardinality(CreditedBy("reputation"))

\* C39 witness: both implementations returned after a failed and a successful
\* gateway call and a post-processing, with the same answers.
C39_Witness ==
    \E r \in ByController, q \in ByModel :
        /\ req[r].pc = "done" /\ req[q].pc = "done"
        /\ req[r].contractIndex = req[q].contractIndex
        /\ AnswersIn(req[r].trace) = AnswersIn(req[q].trace)
        /\ Len(TraceOf(q, "call")) = 2
        /\ Len(TraceOf(q, "wait")) = 1
        /\ Len(TraceOf(q, "post")) = 1
        /\ karma["w1"] > 0

\* C39 witness of the failing side: both implementations gave up after the same
\* failed gateway calls.
C39_WitnessFailed ==
    \E r \in ByController, q \in ByModel :
        /\ req[r].error = "EntropyFetchError" /\ req[q].error = "EntropyFetchError"
        /\ req[r].contractIndex = req[q].contractIndex
        /\ AnswersIn(req[r].trace) = AnswersIn(req[q].trace)
        /\ Len(TraceOf(q, "call")) = 2

====
